---- MODULE Spec2Model ----
(***************************************************************************)
(* A model of quatch, a patching library for Quake 3 VM (.qvm) images:     *)
(* the tagged Memory (quatch/memory.py), the instruction codec             *)
(* (quatch/instruction.py) and the image builder Qvm (quatch/_qvm.py).     *)
(***************************************************************************)
EXTENDS Integers, Sequences, FiniteSets, TLC

VARIABLES
    memory,      \* Memory: [regions |-> Memory._regions, size |-> Memory._size]
    reference,   \* the reference bytearray of tests/test_memory.py
    nwrites,     \* how many index and slice writes have succeeded (of
                 \* forgings and of compilations: how many were tried)
    instructions,\* a list of Instruction objects (Qvm.instructions)
    code,        \* the bytes handed to disassemble
    qvm,         \* the other attributes of a Qvm: symbols, _calls, ...
    file,        \* the bytes of the .qvm file the Qvm was made from
    disk,        \* the bytes of the last file Qvm.write has written
    nadds,       \* how many add_data, add_lit and add_bss calls were made
    result       \* what the last operation was given and how it ended

memVars == <<memory, reference, nwrites>>
codecVars == <<instructions, code>>
qvmVars == <<qvm, file, disk, nadds>>
vars == <<memory, reference, nwrites, instructions, code, qvm, file, disk, nadds,
          result>>

(***************************************************************************)
(* Bounds of the model.                                                    *)
(***************************************************************************)
MaxSize == 4            \* len(memory) stays within this many bytes
MaxRegions == 2         \* add_region is tried on at most this many regions
MaxWrites == 1          \* writes tried after this many successful writes: none

Max(a, b) == IF a >= b THEN a ELSE b
Min(a, b) == IF a <= b THEN a ELSE b

(***************************************************************************)
(* Python sequence primitives, as bytearray and list implement them.       *)
(***************************************************************************)
\* slice(i, j).indices(n) for step 1: one bound, normalised and clamped
SliceIndex(k, n) == IF k < 0 THEN Max(k + n, 0) ELSE Min(k, n)

\* s[b:e]
PySlice(s, b, e) ==
    SubSeq(s, SliceIndex(b, Len(s)) + 1, SliceIndex(e, Len(s)))

\* s[b:e] = v  (the length of s changes when Len(v) differs from the slice)
PySliceAssign(s, b, e, v) ==
    LET bb == SliceIndex(b, Len(s))
        ee == Max(bb, SliceIndex(e, Len(s)))
    IN  SubSeq(s, 1, bb) \o v \o SubSeq(s, ee + 1, Len(s))

\* b"\x00" * k
Zeros(k) == [x \in 1..Max(k, 0) |-> 0]

\* quatch.util.align
\* align with a bug: a length that is a multiple already is moved up too
alignUp(n, alignment) == n + (alignment - (n % alignment))

\* align of quatch/_util.py
align(n, alignment) == n + ((alignment - (n % alignment)) % alignment)

(***************************************************************************)
(* Region and Memory (quatch/memory.py).                                   *)
(***************************************************************************)
Region(begin, end, tag, contents) ==
    [begin |-> begin, end |-> end, tag |-> tag, contents |-> contents]

\* Region.__lt__
RegionLt(self, other) == self.end <= other.begin

\* Region.size
RegionSize(r) == r.end - r.begin

\* bisect.bisect_left(a, x, lo, hi)
RECURSIVE bisect_left(_, _, _, _)
bisect_left(a, x, lo, hi) ==
    IF lo < hi
    THEN LET mid == (lo + hi) \div 2
         IN  IF RegionLt(a[mid + 1], x)
             THEN bisect_left(a, x, mid + 1, hi)
             ELSE bisect_left(a, x, lo, mid)
    ELSE lo

\* bisect.bisect_right(a, x, lo, hi)
RECURSIVE bisect_right(_, _, _, _)
bisect_right(a, x, lo, hi) ==
    IF lo < hi
    THEN LET mid == (lo + hi) \div 2
         IN  IF RegionLt(x, a[mid + 1])
             THEN bisect_right(a, x, lo, mid)
             ELSE bisect_right(a, x, mid + 1, hi)
    ELSE lo

\* Memory.regions_overlapping, as the pair (first, last) of list positions:
\* the regions returned are self._regions[first:last]
OverlapBounds(m, begin, end) ==
    LET query == Region(begin, end, "none", <<>>)
        first == Max(bisect_left(m.regions, query, 0, Len(m.regions)), 0)
        last  == Min(bisect_right(m.regions, query, 0, Len(m.regions)),
                     Len(m.regions))
    IN  <<first, last>>

regions_overlapping(m, begin, end) ==
    LET fl == OverlapBounds(m, begin, end)
    IN  SubSeq(m.regions, fl[1] + 1, fl[2])

\* Memory.region_at, as a position in self._regions: 0 stands for None and
\* -1 for the failure of its assertion
region_at(m, point) ==
    LET fl == OverlapBounds(m, point, point + 1)
        n  == Max(fl[2] - fl[1], 0)
    IN  IF n = 0 THEN 0
        ELSE IF n # 1 THEN -1
        ELSE fl[1] + 1

\* Memory.__getitem__ with an int key
GetItem(m, k) ==
    LET key == IF k < 0 THEN k + m.size ELSE k
    IN  IF ~(0 <= key /\ key < m.size)
        THEN [err |-> "IndexError", val |-> 0]
        ELSE LET r == region_at(m, key)
             IN  IF r = -1 THEN [err |-> "AssertionError", val |-> 0]
                 ELSE IF r = 0 THEN [err |-> "ok", val |-> 0]
                 ELSE [err |-> "ok",
                       val |-> m.regions[r].contents[key - m.regions[r].begin + 1]]

\* GetSliceLoop with a bug: the last region found is not cut at the slice's stop
RECURSIVE GetSliceLoopNoCut(_, _, _, _, _)
GetSliceLoopNoCut(regions, start, stop, position, acc) ==
    IF regions = <<>>
    THEN acc \o Zeros(stop - position)
    ELSE LET region == Head(regions)
             begin  == Max(0, start - region.begin)
             end    == RegionSize(region)
         IN  GetSliceLoopNoCut(Tail(regions), start, stop, region.end,
                 acc \o Zeros(region.begin - position)
                     \o PySlice(region.contents, begin, end))

\* the loop of Memory.__getitem__ with a slice key, over the regions found
RECURSIVE GetSliceLoop(_, _, _, _, _)
GetSliceLoop(regions, start, stop, position, acc) ==
    IF regions = <<>>
    THEN acc \o Zeros(stop - position)
    ELSE LET region == Head(regions)
             begin  == Max(0, start - region.begin)
             end    == RegionSize(region) - Max(0, region.end - stop)
         IN  GetSliceLoop(Tail(regions), start, stop, region.end,
                 acc \o Zeros(region.begin - position)
                     \o PySlice(region.contents, begin, end))

\* Memory.__getitem__ with the key slice(i, j)
GetSlice(m, i, j) ==
    LET start == SliceIndex(i, m.size)
        stop  == SliceIndex(j, m.size)
    IN  GetSliceLoop(regions_overlapping(m, start, stop), start, stop, start, <<>>)

\* GapScan with a bug: a gap in front of a region does not stop the scan
RECURSIVE GapScanNoBreak(_, _)
GapScanNoBreak(regions, position) ==
    IF regions = <<>> THEN position
    ELSE GapScanNoBreak(Tail(regions), Head(regions).end)

\* the gap check of Memory.__setitem__: where the scan of the regions found
\* stops (the first position of [start, stop) that no region covers)
RECURSIVE GapScan(_, _)
GapScan(regions, position) ==
    IF regions = <<>> THEN position
    ELSE IF Head(regions).begin > position THEN position
    ELSE GapScan(Tail(regions), Head(regions).end)

\* the copy loop of Memory.__setitem__: the region list after region number
\* k, k+1, .. last (positions in self._regions) took their part of value
RECURSIVE SetSliceLoop(_, _, _, _, _, _)
SetSliceLoop(regions, k, last, start, stop, value) ==
    IF k > last THEN regions
    ELSE LET region    == regions[k]
             src_begin == Max(0, region.begin - start)
             src_end   == Min(Len(value), region.end - start)
             dst_begin == Max(0, start - region.begin)
             dst_end   == Min(RegionSize(region), stop - region.begin)
             contents  == PySliceAssign(region.contents, dst_begin, dst_end,
                                        PySlice(value, src_begin, src_end))
         IN  SetSliceLoop([regions EXCEPT ![k].contents = contents],
                          k + 1, last, start, stop, value)

\* Memory.__setitem__ with an int key: [err, mem]
SetItem(m, k, value) ==
    LET key == IF k < 0 THEN k + m.size ELSE k
    IN  IF ~(0 <= key /\ key < m.size)
        THEN [err |-> "IndexError", mem |-> m]
        ELSE LET r == region_at(m, key)
             IN  IF r = -1 THEN [err |-> "AssertionError", mem |-> m]
                 ELSE IF r = 0 THEN [err |-> "IndexError", mem |-> m]
                 ELSE [err |-> "ok",
                       mem |-> [m EXCEPT
                           !.regions[r].contents[key - m.regions[r].begin + 1] = value]]

\* SetSlice with a bug: the regions found take their part of the value before
\* the gap is reported
SetSlicePartial(m, i, j, value) ==
    LET start   == SliceIndex(i, m.size)
        stop    == SliceIndex(j, m.size)
        fl      == OverlapBounds(m, start, stop)
        regions == SubSeq(m.regions, fl[1] + 1, fl[2])
        position == GapScan(regions, start)
        contains_bss == \/ position < stop
                        \/ (Len(regions) = 0 /\ start < stop)
    IN  IF Max(0, stop - start) # Len(value)
        THEN [err |-> "ValueError", mem |-> m]
        ELSE [err |-> IF contains_bss THEN "IndexError" ELSE "ok",
              mem |-> [m EXCEPT !.regions =
                          SetSliceLoop(m.regions, fl[1] + 1, fl[2], start, stop, value)]]

\* Memory.__setitem__ with the key slice(i, j): [err, mem]
SetSlice(m, i, j, value) ==
    LET start   == SliceIndex(i, m.size)
        stop    == SliceIndex(j, m.size)
        fl      == OverlapBounds(m, start, stop)
        regions == SubSeq(m.regions, fl[1] + 1, fl[2])
        position == GapScan(regions, start)
        contains_bss == \/ position < stop
                        \/ (Len(regions) = 0 /\ start < stop)
    IN  IF Max(0, stop - start) # Len(value)
        THEN [err |-> "ValueError", mem |-> m]
        ELSE IF contains_bss
        THEN [err |-> "IndexError", mem |-> m]
        ELSE [err |-> "ok",
              mem |-> [m EXCEPT !.regions =
                          SetSliceLoop(m.regions, fl[1] + 1, fl[2], start, stop, value)]]

\* Memory.align
MemAlign(m, alignment) == [m EXCEPT !.size = align(m.size, alignment)]

\* add_region with a bug: the data is added at the end, without padding
add_regionNoAlign(m, tag, data, alignment) ==
    IF tag = "BSS"
    THEN IF \E x \in 1..Len(data) : data[x] # 0
         THEN [err |-> "ValueError", mem |-> m, ret |-> -1]
         ELSE [err |-> "ok", ret |-> m.size,
               mem |-> [m EXCEPT !.size = m.size + Len(data)]]
    ELSE IF tag = "DATA" /\ (Len(data) % 4 # 0 \/ alignment % 4 # 0)
         THEN [err |-> "ValueError", mem |-> m, ret |-> -1]
         ELSE [err |-> "ok", ret |-> m.size,
               mem |-> [regions |-> Append(m.regions,
                            Region(m.size, m.size + Len(data), tag, data)),
                        size |-> m.size + Len(data)]]

\* add_region with a bug: DATA of any alignment is accepted
add_regionAnyAlignment(m, tag, data, alignment) ==
    LET a       == MemAlign(m, alignment)
        address == a.size
    IN  IF tag = "BSS"
        THEN IF \E x \in 1..Len(data) : data[x] # 0
             THEN [err |-> "ValueError", mem |-> a, ret |-> -1]
             ELSE [err |-> "ok", ret |-> address,
                   mem |-> [a EXCEPT !.size = a.size + Len(data)]]
        ELSE IF tag = "DATA" /\ Len(data) % 4 # 0
             THEN [err |-> "ValueError", mem |-> a, ret |-> -1]
             ELSE [err |-> "ok", ret |-> address,
                   mem |-> [regions |-> Append(a.regions,
                                Region(a.size, a.size + Len(data), tag, data)),
                            size |-> a.size + Len(data)]]

\* Memory.add_region: [err, mem, ret].  The padding of self.align(alignment)
\* is applied before the arguments are checked, so it stays when they are
\* rejected.
add_region(m, tag, data, alignment) ==
    LET a       == MemAlign(m, alignment)
        address == a.size
    IN  IF tag = "BSS"
        THEN IF \E x \in 1..Len(data) : data[x] # 0
             THEN [err |-> "ValueError", mem |-> a, ret |-> -1]
             ELSE [err |-> "ok", ret |-> address,
                   mem |-> [a EXCEPT !.size = a.size + Len(data)]]
        ELSE IF tag = "DATA" /\ (Len(data) % 4 # 0 \/ alignment % 4 # 0)
             THEN [err |-> "ValueError", mem |-> a, ret |-> -1]
             ELSE [err |-> "ok", ret |-> address,
                   mem |-> [regions |-> Append(a.regions,
                                Region(a.size, a.size + Len(data), tag, data)),
                            size |-> a.size + Len(data)]]

\* Memory.add_bss: [err, mem, ret]
add_bss(m, size, alignment) ==
    IF size < 0
    THEN [err |-> "ValueError", mem |-> m, ret |-> -1]
    ELSE LET a == MemAlign(m, alignment)
         IN  [err |-> "ok", ret |-> a.size,
              mem |-> [a EXCEPT !.size = a.size + size]]

\* Memory.regions_with_tag
regions_with_tag(m, tag) == SelectSeq(m.regions, LAMBDA r : r.tag = tag)

(***************************************************************************)
(* The reference bytearray of tests/test_memory.py.                        *)
(***************************************************************************)
\* reference[k]
RefGetItem(ref, k) ==
    LET key == IF k < 0 THEN k + Len(ref) ELSE k
    IN  IF ~(0 <= key /\ key < Len(ref))
        THEN [err |-> "IndexError", val |-> 0]
        ELSE [err |-> "ok", val |-> ref[key + 1]]

\* reference[k] = value, for an index in range
RefSetItem(ref, k, value) ==
    [ref EXCEPT ![(IF k < 0 THEN k + Len(ref) ELSE k) + 1] = value]

(***************************************************************************)
(* The memory test bench: a Memory and the reference side by side.  A call *)
(* leaves its arguments and its outcome in result; the caller takes note   *)
(* of them (Return) before the next call.                                  *)
(***************************************************************************)
Tags == {"DATA", "LIT", "BSS"}
Alignments == {1, 2, 3, 4}

\* the sizes handed to add_bss
BssSizes == {-1, 0, 1, 2}

\* the byte strings handed to add_region: empty, zero and nonzero bytes for
\* LIT and BSS, a whole word for DATA
AddData == {<<>>, <<0>>, <<1>>, <<0, 1>>, <<1, 0, 0, 0>>}

\* the value of a slice write: n bytes, each different from its neighbours
Ramp(n) == [x \in 1..n |-> 1 + (x % 2)]

NoResult == [op |-> "none"]

\* no Qvm has been made
NoQvm == [module |-> "none"]

MemInit ==
    /\ memory = [regions |-> <<>>, size |-> 0]
    /\ reference = <<>>
    /\ nwrites = 0
    /\ instructions = <<>>
    /\ code = <<>>
    /\ qvm = NoQvm
    /\ file = <<>>
    /\ disk = <<>>
    /\ nadds = 0
    /\ result = NoResult

\* m.add_region(tag, data, alignment); the reference is extended by the
\* padding and, as setUp does, by the data of a successful call
MemAddRegion(tag, data, alignment) ==
    /\ result.op = "none"
    /\ Len(memory.regions) < MaxRegions
    /\ align(memory.size, alignment) + Len(data) <= MaxSize
    /\ LET r == add_region(memory, tag, data, alignment)
       IN  /\ memory' = r.mem
           /\ reference' = reference
                  \o Zeros(align(memory.size, alignment) - memory.size)
                  \o (IF r.err = "ok" THEN data ELSE <<>>)
           /\ result' = [op |-> "add_region", err |-> r.err, ret |-> r.ret,
                         tag |-> tag, data |-> data, alignment |-> alignment,
                         before |-> memory]
           /\ UNCHANGED <<nwrites, codecVars, qvmVars>>

\* m.add_bss(size, alignment); the reference is extended by the zeros of
\* the padding and of the bss
MemAddBss(size, alignment) ==
    /\ result.op = "none"
    /\ align(memory.size, alignment) + Max(size, 0) <= MaxSize
    /\ LET r == add_bss(memory, size, alignment)
       IN  /\ memory' = r.mem
           /\ reference' = reference \o Zeros(r.mem.size - memory.size)
           /\ result' = [op |-> "add_bss", err |-> r.err, ret |-> r.ret,
                         size |-> size, alignment |-> alignment,
                         before |-> memory]
           /\ UNCHANGED <<nwrites, codecVars, qvmVars>>

\* m.align(alignment); the reference is extended by the zeros of the padding
MemAlignTo(alignment) ==
    /\ result.op = "none"
    /\ align(memory.size, alignment) <= MaxSize
    /\ memory' = MemAlign(memory, alignment)
    /\ reference' = reference \o Zeros(align(memory.size, alignment) - memory.size)
    /\ result' = [op |-> "align", err |-> "ok", alignment |-> alignment,
                  before |-> memory]
    /\ UNCHANGED <<nwrites, codecVars, qvmVars>>

\* m[i] = value, then reference[i] = value when it succeeded
MemSetItem(i, value) ==
    /\ result.op = "none"
    /\ nwrites < MaxWrites
    /\ LET r == SetItem(memory, i, value)
       IN  /\ memory' = r.mem
           /\ reference' = IF r.err = "ok" THEN RefSetItem(reference, i, value)
                           ELSE reference
           /\ nwrites' = IF r.err = "ok" THEN nwrites + 1 ELSE nwrites
           /\ result' = [op |-> "setitem", err |-> r.err, i |-> i, value |-> value]
           /\ UNCHANGED <<codecVars, qvmVars>>

\* m[i:j] = value, then reference[i:j] = value when it succeeded
MemSetSlice(i, j, value) ==
    /\ result.op = "none"
    /\ nwrites < MaxWrites
    /\ LET r == SetSlice(memory, i, j, value)
       IN  /\ memory' = r.mem
           /\ reference' = IF r.err = "ok" THEN PySliceAssign(reference, i, j, value)
                           ELSE reference
           /\ nwrites' = IF r.err = "ok" THEN nwrites + 1 ELSE nwrites
           /\ result' = [op |-> "setslice", err |-> r.err, i |-> i, j |-> j,
                         value |-> value]
           /\ UNCHANGED <<codecVars, qvmVars>>

\* the keys tried on a memory: every index and bound in range, and one
\* beyond it on either side
Keys(m) == -(m.size + 1) .. (m.size + 1)

\* the length of m[i:j]
SliceLen(m, i, j) == Max(0, SliceIndex(j, m.size) - SliceIndex(i, m.size))

\* test_getitem: m[i] for every key i and m[i:j] for every pair of keys
MemReadAll ==
    /\ result.op = "none"
    /\ result' = [op |-> "getitem",
                  item |-> [i \in Keys(memory) |-> GetItem(memory, i)],
                  slice |-> [k \in Keys(memory) \X Keys(memory) |->
                                 GetSlice(memory, k[1], k[2])]]
    /\ UNCHANGED <<memVars, codecVars, qvmVars>>

\* the caller has seen the outcome of the last call
Return ==
    /\ result.op # "none"
    /\ result' = NoResult
    /\ UNCHANGED <<memVars, codecVars, qvmVars>>

MemNext ==
    \/ \E tag \in Tags, data \in AddData, alignment \in Alignments :
           MemAddRegion(tag, data, alignment)
    \/ \E size \in BssSizes, alignment \in Alignments : MemAddBss(size, alignment)
    \/ \E alignment \in Alignments : MemAlignTo(alignment)
    \/ MemReadAll
    \/ \E i \in Keys(memory) : MemSetItem(i, 2)
    \/ \E i \in Keys(memory), j \in Keys(memory), extra \in {0, 1} :
           MemSetSlice(i, j, Ramp(SliceLen(memory, i, j) + extra))
    \/ Return

SpecMem == MemInit /\ [][MemNext]_vars

(***************************************************************************)
(* Python integers.  An operand may lie outside the 32 bits of a TLC       *)
(* integer, so an int n is kept as the pair <<hi, lo>> with                *)
(* n = hi * 65536 + lo and 0 <= lo < 65536.                                *)
(***************************************************************************)
PyInt(n) == <<n \div 65536, n % 65536>>

IntLeq(a, b) == a[1] < b[1] \/ (a[1] = b[1] /\ a[2] <= b[2])

IntNeg(a) == IF a[2] = 0 THEN <<-a[1], 0>> ELSE <<-a[1] - 1, 65536 - a[2]>>

\* a - 1
IntPred(a) == IF a[2] = 0 THEN <<a[1] - 1, 65535>> ELSE <<a[1], a[2] - 1>>

\* 2 ** k
IntPow2(k) == IF k < 16 THEN <<0, 2 ^ k>> ELSE <<2 ^ (k - 16), 0>>

\* byte number k (0 is the lowest) of the two's complement of v
ByteOf(v, k) ==
    LET half == IF k < 2 THEN v[2] ELSE v[1] % 65536
    IN  IF k % 2 = 0 THEN half % 256 ELSE half \div 256

\* to_bytes with a bug: the bytes in big-endian order
to_bytesBigEndian(v, size) == [k \in 1..size |-> ByteOf(v, size - k)]

\* v.to_bytes(size, "little", signed=v < 0), for a v that fits
to_bytes(v, size) == [k \in 1..size |-> ByteOf(v, k - 1)]

\* int.from_bytes(bytes, "little"), for at most 4 bytes
from_bytes(bytes) ==
    LET b(k) == IF k <= Len(bytes) THEN bytes[k] ELSE 0
    IN  <<b(3) + 256 * b(4), b(1) + 256 * b(2)>>

(***************************************************************************)
(* CRC-32 (quatch/_util.py).  Values of 32 bits and more are pairs         *)
(* <<hi, lo>> as above; ^, >> and << work on the halves.                   *)
(***************************************************************************)
\* a ^ b for two naturals, bit by bit
RECURSIVE XorBits(_, _)
XorBits(a, b) ==
    IF a = 0 THEN b
    ELSE IF b = 0 THEN a
    ELSE ((a + b) % 2) + 2 * XorBits(a \div 2, b \div 2)

\* a ^ b for two bytes
XorBytes == [a \in 0..255 |-> [b \in 0..255 |-> XorBits(a, b)]]

\* a ^ b for two naturals, byte by byte
RECURSIVE Xor(_, _)
Xor(a, b) ==
    IF a < 256 /\ b < 256 THEN XorBytes[a][b]
    ELSE XorBytes[a % 256][b % 256] + 256 * Xor(a \div 256, b \div 256)

\* p ^ q for two ints that are not negative
IntXor(p, q) == <<Xor(p[1], q[1]), Xor(p[2], q[2])>>

\* p >> 1 and p >> 8
IntShr1(p) == <<p[1] \div 2, (p[1] % 2) * 32768 + p[2] \div 2>>
IntShr8(p) == <<p[1] \div 256, (p[1] % 256) * 256 + p[2] \div 256>>

\* p << 1 and p << 8 (the result may be longer than 32 bits)
IntShl1(p) == <<p[1] * 2 + p[2] \div 32768, (p[2] * 2) % 65536>>
IntShl8(p) == <<p[1] * 256 + p[2] \div 256, (p[2] * 256) % 65536>>

\* p & 0xFFFFFFFF
IntMask32(p) == <<p[1] % 65536, p[2]>>

POLY == <<60856, 33568>>         \* 0xEDB88320
ONES == <<65535, 65535>>         \* 0xFFFFFFFF

\* the table of binascii.crc32: entry i is the register after the 8 bits of
\* the byte i went through it
RECURSIVE crc32_table_entry(_, _)
crc32_table_entry(reg, n) ==
    IF n = 0 THEN reg
    ELSE crc32_table_entry(IF reg[2] % 2 = 1 THEN IntXor(IntShr1(reg), POLY)
                           ELSE IntShr1(reg),
                           n - 1)

crc32_table == [i \in 0..255 |-> crc32_table_entry(<<0, i>>, 8)]

\* the loop of binascii.crc32 over the bytes of data: s holds the register
\* and the number k of bytes that went through it; the loop runs until k is
\* hi, first to the middle and then on
RECURSIVE crc32_update(_, _, _)
crc32_update(s, data, hi) ==
    IF s.k >= hi THEN s
    ELSE IF s.k + 1 = hi
    THEN [reg |-> IntXor(crc32_table[Xor(s.reg[2] % 256, data[s.k + 1])],
                         IntShr8(s.reg)),
          k |-> s.k + 1]
    ELSE crc32_update(crc32_update(s, data, (s.k + hi) \div 2), data, hi)

\* crc32
crc32(data) ==
    IntXor(crc32_update([reg |-> ONES, k |-> 0], data, Len(data)).reg, ONES)

\* the loop _gen_crc32_reverse_table runs for one entry
RECURSIVE gen_crc32_reverse_entry(_, _)
gen_crc32_reverse_entry(reg, n) ==
    IF n = 0 THEN reg
    ELSE gen_crc32_reverse_entry(
             IF reg[1] >= 32768
             THEN LET shifted == IntShl1(IntXor(reg, POLY))
                  IN  <<shifted[1], shifted[2] + 1>>
             ELSE IntShl1(reg),
             n - 1)

\* _crc32_reverse_table
crc32_reverse_table == [i \in 0..255 |-> gen_crc32_reverse_entry(<<i * 256, 0>>, 8)]

\* _crc32_reverse with a bug: the bytes are taken first to last
RECURSIVE crc32_reverseForward(_, _, _)
crc32_reverseForward(s, data, lo) ==
    IF s.k <= lo THEN s
    ELSE IF s.k - 1 = lo
    THEN [reg |-> IntMask32(IntXor(IntXor(IntShl8(s.reg),
                                          crc32_reverse_table[s.reg[1] \div 256]),
                                   <<0, data[Len(data) - s.k + lo + 1]>>)),
          k |-> s.k - 1]
    ELSE crc32_reverseForward(crc32_reverseForward(s, data, (s.k + lo) \div 2),
                              data, lo)

\* the loop of _crc32_reverse over reversed(data): s holds the register and
\* the number k of the byte that goes through it next (from 1); the loop
\* runs until k is lo, first to the middle and then on
RECURSIVE crc32_reverse(_, _, _)
crc32_reverse(s, data, lo) ==
    IF s.k <= lo THEN s
    ELSE IF s.k - 1 = lo
    THEN [reg |-> IntMask32(IntXor(IntXor(IntShl8(s.reg),
                                          crc32_reverse_table[s.reg[1] \div 256]),
                                   <<0, data[s.k]>>)),
          k |-> s.k - 1]
    ELSE crc32_reverse(crc32_reverse(s, data, (s.k + lo) \div 2), data, lo)

\* data[offset : offset + 4] = value, for a bytearray (which changes its
\* length when the slice is shorter than value) or an mmap (which refuses):
\* [err, data]
AssignWord(data, offset, value, resizable) ==
    IF resizable \/ Len(PySlice(data, offset, offset + 4)) = Len(value)
    THEN [err |-> "ok", data |-> PySliceAssign(data, offset, offset + 4, value)]
    ELSE [err |-> "IndexError", data |-> data]

\* the second assignment of forge_crc32
forge_crc32_reverse(first, offset, crc, resizable) ==
    IF first.err # "ok" THEN first
    ELSE AssignWord(first.data, offset,
                    to_bytes(crc32_reverse(
                                 [reg |-> IntXor(crc, ONES), k |-> Len(first.data)],
                                 first.data,
                                 SliceIndex(offset, Len(first.data))).reg,
                             4),
                    resizable)

\* forge_crc32(data, offset, crc): [err, data]
forge_crc32(data, offset, crc, resizable) ==
    forge_crc32_reverse(
        AssignWord(data, offset,
                   to_bytes(IntXor(crc32(PySlice(data, 0, offset)), ONES), 4),
                   resizable),
        offset, crc, resizable)

(***************************************************************************)
(* Python floats: the few the model uses, by name, with what               *)
(* struct.pack("<f", x) makes of them.                                     *)
(***************************************************************************)
Float1 == <<1, 0>>       \* 1.0
FloatM2 == <<2, 0>>      \* -2.0
Float1e40 == <<3, 0>>    \* 1e40, too large for a 32 bit float

\* struct.pack("<f", x) succeeds
FloatFits(x) == x # Float1e40

\* struct.pack("<f", x)
FloatPack(x) == IF x = Float1 THEN <<0, 0, 128, 63>> ELSE <<0, 0, 0, 192>>

(***************************************************************************)
(* Opcode, operand_sizes and Instruction (quatch/instruction.py).          *)
(* An operand is [kind, v]: kind "none" (None), "int" (v a Python int) or  *)
(* "float" (v a Python float).                                             *)
(***************************************************************************)
Opcodes == 0..59
ENTER == 3
LEAVE == 4
CALL == 5
PUSH == 6
CONST == 8
OP_LOCAL == 9      \* Opcode.LOCAL (LOCAL is a reserved word)
EQ == 11
GEF == 26
LOAD4 == 29
STORE1 == 30
STORE4 == 32
ARG == 33
BLOCK_COPY == 34

operand_sizes(op) ==
    IF op \in {ENTER, LEAVE, CONST, OP_LOCAL, BLOCK_COPY} THEN 4
    ELSE IF op = ARG THEN 1
    ELSE IF EQ <= op /\ op <= GEF THEN 4
    ELSE 0

None == [kind |-> "none", v |-> <<0, 0>>]
IntOp(n) == [kind |-> "int", v |-> PyInt(n)]
FloatOp(x) == [kind |-> "float", v |-> x]

\* min_value and max_value of the operand setter
min_value(size) == IntNeg(IntPow2(size * 8 - 1))
max_value(size) == IntPred(IntPow2(size * 8))

\* the operand setter with a bug: no range check
SetOperandNoRange(ins, value) ==
    IF operand_sizes(ins.opcode) = 0 \/ value.kind = "none"
    THEN [err |-> "TypeError", ins |-> ins]
    ELSE [err |-> "ok", ins |-> [ins EXCEPT !.operand = value]]

\* Instruction.operand = value: [err, ins]
SetOperand(ins, value) ==
    LET size == operand_sizes(ins.opcode)
    IN  IF size = 0 THEN [err |-> "TypeError", ins |-> ins]
        ELSE IF value.kind = "float"
        THEN IF ins.opcode # CONST THEN [err |-> "ValueError", ins |-> ins]
             ELSE IF ~FloatFits(value.v) THEN [err |-> "OverflowError", ins |-> ins]
             ELSE [err |-> "ok", ins |-> [ins EXCEPT !.operand = value]]
        ELSE IF value.kind = "none" THEN [err |-> "TypeError", ins |-> ins]
        ELSE IF ~(IntLeq(min_value(size), value.v) /\ IntLeq(value.v, max_value(size)))
        THEN [err |-> "ValueError", ins |-> ins]
        ELSE [err |-> "ok", ins |-> [ins EXCEPT !.operand = value]]

\* Instruction(opcode, operand): [err, ins]
NewInstruction(opcode, operand) ==
    LET self == [opcode |-> opcode, operand |-> None]
    IN  IF operand # None THEN SetOperand(self, operand)
        ELSE IF operand_sizes(opcode) # 0 THEN [err |-> "TypeError", ins |-> self]
        ELSE [err |-> "ok", ins |-> self]

\* Ins(opcode, operand) for arguments known to be accepted
Ins(opcode, operand) == NewInstruction(opcode, operand).ins

\* Instruction.assemble
AssembleOne(ins) ==
    <<ins.opcode>> \o
        (IF ins.operand.kind = "float" THEN FloatPack(ins.operand.v)
         ELSE IF ins.operand.kind # "none"
         THEN to_bytes(ins.operand.v, operand_sizes(ins.opcode))
         ELSE <<>>)

\* assemble
RECURSIVE assemble(_)
assemble(xs) ==
    IF xs = <<>> THEN <<>> ELSE AssembleOne(Head(xs)) \o assemble(Tail(xs))

\* the loop of disassemble over what is left of the stream: [err, instructions].
\* stream.read(n) returns the bytes that are left when fewer than n are.
RECURSIVE DisassembleLoop(_, _)
DisassembleLoop(stream, acc) ==
    IF stream = <<>> THEN [err |-> "ok", instructions |-> acc]
    ELSE LET byte == Head(stream)
             rest == Tail(stream)
         IN  IF byte \notin Opcodes
             THEN [err |-> "ValueError", instructions |-> acc]
             ELSE IF operand_sizes(byte) # 0
             THEN LET n == Min(operand_sizes(byte), Len(rest))
                      operand == [kind |-> "int", v |-> from_bytes(SubSeq(rest, 1, n))]
                      made == NewInstruction(byte, operand)
                  IN  IF made.err # "ok"
                      THEN [err |-> made.err, instructions |-> acc]
                      ELSE DisassembleLoop(SubSeq(rest, n + 1, Len(rest)),
                                           Append(acc, made.ins))
             ELSE DisassembleLoop(rest, Append(acc, Ins(byte, None)))

\* disassemble
disassemble(bytes) == DisassembleLoop(bytes, <<>>)

(***************************************************************************)
(* The codec test bench: Instructions are made and their operands          *)
(* assigned, the list is assembled and disassembled again; or disassemble  *)
(* is fed a byte stream that grows byte by byte.                           *)
(***************************************************************************)
MaxInstructions == 2     \* longest list of Instructions built
MaxCode == 5             \* longest byte stream fed to disassemble

\* the opcodes tried: no operand, 4-byte operand, 1-byte operand
OpcodeSamples == {PUSH, CONST, ARG}

\* the operands tried: None, ints on and beyond the edges of both ranges, floats
OperandSamples ==
    {None, FloatOp(Float1), FloatOp(FloatM2), FloatOp(Float1e40)} \cup
    {[kind |-> "int", v |-> v] : v \in
        { <<-32769, 65535>>,      \* -2**31 - 1
          <<-32768, 0>>,          \* -2**31
          PyInt(-129), PyInt(-128), PyInt(-1), PyInt(0), PyInt(123), PyInt(255), PyInt(256),
          <<65535, 65535>>,       \* 2**32 - 1
          <<65536, 0>> }}         \* 2**32

\* the bytes fed to disassemble: opcodes of each width, no opcode, operand bytes
ByteSamples == {PUSH, CONST, ARG, 60, 123, 255}

CodecInit == MemInit

\* instructions.append(Instruction(opcode, operand))
CodecNew(opcode, operand) ==
    /\ result.op = "none"
    /\ code = <<>>
    /\ Len(instructions) < MaxInstructions
    /\ LET made == NewInstruction(opcode, operand)
       IN  /\ instructions' = IF made.err = "ok" THEN Append(instructions, made.ins)
                              ELSE instructions
           /\ result' = [op |-> "new", err |-> made.err, opcode |-> opcode,
                         operand |-> operand]
    /\ UNCHANGED <<memVars, code, qvmVars>>

\* instructions[k].operand = value
CodecSetOperand(k, value) ==
    /\ result.op = "none"
    /\ LET set == SetOperand(instructions[k], value)
       IN  /\ instructions' = [instructions EXCEPT ![k] = set.ins]
           /\ result' = [op |-> "set", err |-> set.err, k |-> k, value |-> value,
                         before |-> instructions[k]]
    /\ UNCHANGED <<memVars, code, qvmVars>>

\* disassemble(assemble(instructions))
CodecRoundTrip ==
    /\ result.op = "none"
    /\ instructions # <<>>
    /\ result' = [op |-> "roundtrip", bytes |-> assemble(instructions),
                  out |-> disassemble(assemble(instructions))]
    /\ UNCHANGED <<memVars, codecVars, qvmVars>>

\* disassemble(code + bytes([byte]))
CodecDisassemble(byte) ==
    /\ result.op = "none"
    /\ instructions = <<>>
    /\ Len(code) < MaxCode
    /\ code' = Append(code, byte)
    /\ result' = [op |-> "disassemble", out |-> disassemble(code')]
    /\ UNCHANGED <<memVars, instructions, qvmVars>>

CodecNext ==
    \/ \E opcode \in OpcodeSamples, operand \in OperandSamples :
           CodecNew(opcode, operand)
    \/ \E k \in 1..Len(instructions), value \in OperandSamples :
           CodecSetOperand(k, value)
    \/ CodecRoundTrip
    \/ \E byte \in ByteSamples : CodecDisassemble(byte)
    \/ Return

SpecCodec == CodecInit /\ [][CodecNext]_vars

(***************************************************************************)
(* The checksum bench: a buffer grows byte by byte and forge_crc32 is      *)
(* called on it, on a bytearray or on an mmap of the same bytes.           *)
(***************************************************************************)
MaxBuffer == 5           \* longest buffer forge_crc32 is called on
MaxForges == 2           \* forge_crc32 is called this often on a buffer

\* the bytes the buffer is made of
BufferBytes == {0, 49, 255}

\* the checksums asked for: 0, 0x12345678, 0xFFFFFFFF
CrcSamples == { <<0, 0>>, <<4660, 22136>>, ONES }

\* buf.append(byte)
CrcAppend(byte) ==
    /\ result.op = "none"
    /\ nwrites = 0
    /\ Len(code) < MaxBuffer
    /\ code' = Append(code, byte)
    /\ UNCHANGED <<memVars, instructions, qvmVars, result>>

\* what a forge_crc32 call leaves behind
CrcForged(r, offset, crc, resizable) ==
    /\ code' = r.data
    /\ nwrites' = nwrites + 1
    /\ result' = [op |-> "forge_crc32", err |-> r.err, before |-> code,
                  offset |-> offset, crc |-> crc, resizable |-> resizable]
    /\ UNCHANGED <<memory, reference, instructions, qvmVars>>

\* forge_crc32(buf, offset, crc)
CrcForge(offset, crc, resizable) ==
    /\ result.op = "none"
    /\ nwrites < MaxForges
    /\ CrcForged(forge_crc32(code, offset, crc, resizable), offset, crc, resizable)

CrcNext ==
    \/ \E byte \in BufferBytes : CrcAppend(byte)
    \/ \E offset \in 0..Len(code), crc \in CrcSamples, resizable \in BOOLEAN :
           CrcForge(offset, crc, resizable)
    \/ Return

SpecCrc == MemInit /\ [][CrcNext]_vars

(***************************************************************************)
(* The image builder Qvm.  The repository holds two versions of it:        *)
(* quatch/_qvm.py, which the package exports, and the older quatch/qvm.py. *)
(* qvm.module says which class the Qvm is an instance of.  A .qvm file is  *)
(* its bytes: the header of 8 little-endian words, the code, the data.     *)
(***************************************************************************)
STACK_SIZE == 65536
HEADER_SIZE == 32        \* struct.calcsize("<IIIIIIII")

\* the value of a Python int that fits a TLC integer
IntOf(p) == p[1] * 65536 + p[2]

\* quatch.util.pad, with the default padding
pad(data, alignment) == data \o Zeros(align(Len(data), alignment) - Len(data))

\* struct.pack("<IIIIIIII", ...) of 8 ints within 32 bits
RECURSIVE struct_pack(_)
struct_pack(fields) ==
    IF fields = <<>> THEN <<>>
    ELSE to_bytes(Head(fields), 4) \o struct_pack(Tail(fields))

\* struct.unpack("<IIIIIIII", header)
struct_unpack(header) == [k \in 1..8 |-> from_bytes(SubSeq(header, 4 * k - 3, 4 * k))]

\* f.seek(pos); f.read(n)
FileRead(f, pos, n) == SubSeq(f, pos + 1, Min(pos + n, Len(f)))

\* self.instructions[:instruction_count]
Truncate(xs, count) == SubSeq(xs, 1, Min(count, Len(xs)))

\* the loop that fills self._calls, from index i on: a function from the
\* operands called to the list of the indices they are called at
RECURSIVE CallsLoop(_, _, _)
CallsLoop(xs, i, calls) ==
    IF i >= Len(xs) - 1 THEN calls
    ELSE LET first  == xs[i + 1]
             second == xs[i + 2]
         IN  IF first.opcode = CONST /\ second.opcode = CALL
             THEN LET key == first.operand.v
                      old == IF key \in DOMAIN calls THEN calls[key] ELSE <<>>
                  IN  CallsLoop(xs, i + 1,
                          [k \in DOMAIN calls \cup {key} |->
                              IF k = key THEN Append(old, i) ELSE calls[k]])
             ELSE CallsLoop(xs, i + 1, calls)

\* self._calls[target], a defaultdict(list)
Calls(q, target) == IF target \in DOMAIN q.calls THEN q.calls[target] ELSE <<>>

\* Memory.add_data of quatch/qvm.py, for a tag DATA or LIT
qvm_Memory_add_data(m, tag, data) ==
    [regions |-> Append(m.regions, Region(m.size, m.size + Len(data), tag, data)),
     size |-> m.size + Len(data)]

\* Qvm._add_memory of quatch/qvm.py: no region for no data
qvm_add_memory(m, tag, data, alignment) ==
    LET a == MemAlign(m, alignment)
    IN  [err |-> "ok", ret |-> a.size,
         mem |-> IF Len(data) # 0 THEN qvm_Memory_add_data(a, tag, data) ELSE a]

\* Qvm.add_data of quatch/qvm.py: the arguments are checked first
qvm_add_data(m, data, alignment) ==
    IF Len(data) % 4 # 0 \/ alignment % 4 # 0
    THEN [err |-> "ValueError", mem |-> m, ret |-> -1]
    ELSE qvm_add_memory(m, "DATA", data, alignment)

\* Qvm.add_bss of quatch/qvm.py: the memory is aligned, then extended
qvm_add_bss(m, size, alignment) ==
    LET a == MemAlign(m, alignment)
    IN  IF size < 0 THEN [err |-> "ValueError", mem |-> a, ret |-> -1]
        ELSE [err |-> "ok", ret |-> a.size, mem |-> [a EXCEPT !.size = a.size + size]]

\* Qvm.add_data / add_lit / add_bss of the class the Qvm is an instance of.
\* _qvm.py hands them to Memory.add_region.
add_data(module, m, data, alignment) ==
    IF module = "_qvm" THEN add_region(m, "DATA", data, alignment)
    ELSE qvm_add_data(m, data, alignment)

add_lit(module, m, data, alignment) ==
    IF module = "_qvm" THEN add_region(m, "LIT", data, alignment)
    ELSE qvm_add_memory(m, "LIT", data, alignment)

Qvm_add_bss(module, m, size, alignment) ==
    IF module = "_qvm" THEN add_bss(m, size, alignment)
    ELSE qvm_add_bss(m, size, alignment)

\* Qvm.__init__(path, symbols) on the file f: [err, instructions, memory, qvm]
Load(module, f, symbols) ==
    LET header == struct_unpack(FileRead(f, 0, HEADER_SIZE))
        instruction_count == IntOf(header[2])
        code_offset == IntOf(header[3])
        code_length == IntOf(header[4])
        data_offset == IntOf(header[5])
        data_length == IntOf(header[6])
        lit_length  == IntOf(header[7])
        bss_length  == IntOf(header[8]) - STACK_SIZE
        dis  == disassemble(FileRead(f, code_offset, code_length))
        xs   == Truncate(dis.instructions, instruction_count)
        data == add_data(module, [regions |-> <<>>, size |-> 0],
                         FileRead(f, data_offset, data_length), 4)
        lit  == add_lit(module, data.mem,
                        FileRead(f, data_offset + data_length, lit_length), 1)
        bss  == Qvm_add_bss(module, lit.mem, bss_length, 1)
        err  == IF dis.err # "ok" THEN dis.err
                ELSE IF data.err # "ok" THEN data.err
                ELSE IF lit.err # "ok" THEN lit.err
                ELSE bss.err
    IN  [err |-> err, instructions |-> xs, memory |-> bss.mem,
         qvm |-> [module |-> module,
                  vm_magic |-> header[1],
                  original_data_length |-> data_length,
                  original_lit_length |-> lit_length,
                  original_crc |-> IF module = "_qvm" THEN crc32(f) ELSE None,
                  symbols |-> [name \in DOMAIN symbols |->
                                  [value |-> symbols[name], type |-> "code"]],
                  calls |-> CallsLoop(xs, 0, [k \in {} |-> <<>>])]]

\* Qvm.add_code: [instructions, ret]
add_code(xs, new) == [instructions |-> xs \o new, ret |-> Len(xs)]

\* the names _add_data_init_code looks up, in its order
InitNames == <<"G_InitGame", "CG_Init", "UI_Init">>

\* FindInit with a bug: the last name present wins
RECURSIVE FindInitLast(_, _)
FindInitLast(symbols, names) ==
    IF names = <<>> THEN [found |-> FALSE]
    ELSE LET rest == FindInitLast(symbols, Tail(names))
         IN  IF rest.found THEN rest
             ELSE IF Head(names) \in DOMAIN symbols
             THEN [found |-> TRUE, name |-> Head(names),
                   value |-> symbols[Head(names)].value]
             ELSE [found |-> FALSE]

\* the loop over the init names: the first one that self.symbols holds
RECURSIVE FindInit(_, _)
FindInit(symbols, names) ==
    IF names = <<>> THEN [found |-> FALSE]
    ELSE IF Head(names) \in DOMAIN symbols
    THEN [found |-> TRUE, name |-> Head(names), value |-> symbols[Head(names)].value]
    ELSE FindInit(symbols, Tail(names))

\* WordStores with a bug: a zero word is stored too
RECURSIVE WordStoresAll(_, _, _)
WordStoresAll(m, address, end) ==
    IF address >= end THEN <<>>
    ELSE LET value == from_bytes(GetSlice(m, address, address + 4))
         IN  <<Ins(CONST, IntOp(address)),
               Ins(CONST, [kind |-> "int", v |-> value]),
               Ins(STORE4, None)>>
             \o WordStoresAll(m, address + 4, end)

\* for address in range(begin, end, 4): the code added for a DATA region
RECURSIVE WordStores(_, _, _)
WordStores(m, address, end) ==
    IF address >= end THEN <<>>
    ELSE LET value == from_bytes(GetSlice(m, address, address + 4))
         IN  (IF value # PyInt(0)
              THEN <<Ins(CONST, IntOp(address)),
                     Ins(CONST, [kind |-> "int", v |-> value]),
                     Ins(STORE4, None)>>
              ELSE <<>>)
             \o WordStores(m, address + 4, end)

\* for address in range(begin, end): the code added for a LIT region
RECURSIVE ByteStores(_, _, _)
ByteStores(m, address, end) ==
    IF address >= end THEN <<>>
    ELSE LET value == GetItem(m, address).val
         IN  (IF value # 0
              THEN <<Ins(CONST, IntOp(address)),
                     Ins(CONST, IntOp(value)),
                     Ins(STORE1, None)>>
              ELSE <<>>)
             \o ByteStores(m, address + 1, end)

\* the loop over the DATA regions: the .qvm's data section is skipped
RECURSIVE DataInit(_, _, _)
DataInit(m, regions, q) ==
    IF regions = <<>> THEN <<>>
    ELSE LET region == Head(regions)
         IN  (IF <<region.begin, region.end>> = <<0, q.original_data_length>>
              THEN <<>>
              ELSE WordStores(m, region.begin, region.end))
             \o DataInit(m, Tail(regions), q)

\* the loop over the LIT regions: the .qvm's lit section is skipped
RECURSIVE LitInit(_, _, _)
LitInit(m, regions, q) ==
    IF regions = <<>> THEN <<>>
    ELSE LET region == Head(regions)
         IN  (IF <<region.begin, region.end>> =
                     <<q.original_data_length,
                       q.original_data_length + q.original_lit_length>>
              THEN <<>>
              ELSE ByteStores(m, region.begin, region.end))
             \o LitInit(m, Tail(regions), q)

\* the end of the wrapper: the call of the init function in place, and the
\* dummy end of the procedure
Trampoline(current_init) ==
    << Ins(OP_LOCAL, IntOp(264)), Ins(LOAD4, None), Ins(ARG, IntOp(8)),
       Ins(OP_LOCAL, IntOp(268)), Ins(LOAD4, None), Ins(ARG, IntOp(12)),
       Ins(OP_LOCAL, IntOp(272)), Ins(LOAD4, None), Ins(ARG, IntOp(16)),
       Ins(CONST, current_init), Ins(CALL, None), Ins(LEAVE, IntOp(256)),
       Ins(PUSH, None), Ins(LEAVE, IntOp(256)) >>

\* original_init_call with a bug: the last call site is the one hooked
original_init_callLast(calls) == calls[Len(calls)]

\* self._calls[original_init][0]
original_init_call(calls) == calls[1]

\* InstallHook with a bug: the wrapper calls the address of the init symbol,
\* whatever the first call site holds
InstallHookOriginal(q, m, xs) ==
    LET init == FindInit(q.symbols, InitNames)
    IN  IF ~init.found THEN [err |-> "InitSymbolError", instructions |-> xs]
        ELSE IF Len(Calls(q, init.value)) = 0
        THEN [err |-> "InitSymbolError", instructions |-> xs]
        ELSE LET call == original_init_call(Calls(q, init.value))
                 init_wrapper == add_code(xs, <<Ins(ENTER, IntOp(256))>>)
                 added == init_wrapper.instructions
                          \o DataInit(m, regions_with_tag(m, "DATA"), q)
                          \o LitInit(m, regions_with_tag(m, "LIT"), q)
                          \o Trampoline([kind |-> "int", v |-> init.value])
                 set == SetOperand(added[call + 1], IntOp(init_wrapper.ret))
             IN  [err |-> set.err,
                  instructions |-> [added EXCEPT ![call + 1] = set.ins]]

\* _add_data_init_code from the lookup of the init symbol on:
\* [err, instructions]
InstallHook(q, m, xs) ==
    LET init == FindInit(q.symbols, InitNames)
    IN  IF ~init.found THEN [err |-> "InitSymbolError", instructions |-> xs]
        ELSE IF Len(Calls(q, init.value)) = 0
        THEN [err |-> "InitSymbolError", instructions |-> xs]
        ELSE LET call == original_init_call(Calls(q, init.value))
                 current_init == xs[call + 1].operand
                 init_wrapper == add_code(xs, <<Ins(ENTER, IntOp(256))>>)
                 added == init_wrapper.instructions
                          \o DataInit(m, regions_with_tag(m, "DATA"), q)
                          \o LitInit(m, regions_with_tag(m, "LIT"), q)
                          \o Trampoline(current_init)
                 set == SetOperand(added[call + 1], IntOp(init_wrapper.ret))
             IN  [err |-> set.err,
                  instructions |-> [added EXCEPT ![call + 1] = set.ins]]

\* Qvm._add_data_init_code of quatch/_qvm.py: nothing to do when the memory
\* holds one DATA and one LIT region
add_data_init_code(q, m, xs) ==
    IF /\ Len(regions_with_tag(m, "DATA")) = 1
       /\ Len(regions_with_tag(m, "LIT")) = 1
    THEN [err |-> "ok", instructions |-> xs]
    ELSE InstallHook(q, m, xs)

\* Qvm._add_data_init_code of quatch/qvm.py
qvm_add_data_init_code(q, m, xs) == InstallHook(q, m, xs)

\* FileImage with a bug: the whole memory is written as the data section
FileImageAllMemory(q, m, xs) ==
    LET image == pad(assemble(xs), 4)
        code_offset == HEADER_SIZE
        data_offset == code_offset + Len(image)
        data == GetSlice(m, 0, m.size)
        bss_length == m.size - q.original_data_length - q.original_lit_length
                      + STACK_SIZE
    IN  struct_pack(<< q.vm_magic, PyInt(Len(xs)), PyInt(code_offset),
                       PyInt(Len(image)), PyInt(data_offset),
                       PyInt(q.original_data_length),
                       PyInt(q.original_lit_length), PyInt(bss_length) >>)
        \o image \o data

\* the bytes Qvm.write puts into the file
FileImage(q, m, xs) ==
    LET image == pad(assemble(xs), 4)
        code_offset == HEADER_SIZE
        data_offset == code_offset + Len(image)
        data == GetSlice(m, 0, q.original_data_length + q.original_lit_length)
        bss_length == m.size - q.original_data_length - q.original_lit_length
                      + STACK_SIZE
    IN  struct_pack(<< q.vm_magic, PyInt(Len(xs)), PyInt(code_offset),
                       PyInt(Len(image)), PyInt(data_offset),
                       PyInt(q.original_data_length),
                       PyInt(q.original_lit_length), PyInt(bss_length) >>)
        \o image \o data

\* data_offset of Qvm.write: f.tell() after the header and the padded code
FileDataOffset(xs) == HEADER_SIZE + Len(pad(assemble(xs), 4))

\* the end of Qvm.write with forge_crc: the file, written and flushed, is
\* mapped and forge_crc32 assigns to slices of the map, which cannot change
\* its size; an exception leaves the file as it was flushed
write_forged(xs, forged) ==
    [err |-> forged.err, instructions |-> xs, disk |-> forged.data,
     written |-> TRUE]

\* Qvm.write from the return of _add_data_init_code on: the file is opened
\* and written only then
write_file(q, m, hook, old, forge_crc) ==
    IF hook.err # "ok"
    THEN [err |-> hook.err, instructions |-> hook.instructions, disk |-> old,
          written |-> FALSE]
    ELSE IF forge_crc
    THEN write_forged(hook.instructions,
                      forge_crc32(FileImage(q, m, hook.instructions),
                                  FileDataOffset(hook.instructions),
                                  q.original_crc, FALSE))
    ELSE [err |-> "ok", instructions |-> hook.instructions,
          disk |-> FileImage(q, m, hook.instructions), written |-> TRUE]

\* Qvm.write(path, forge_crc=forge_crc), on a path that holds the bytes old:
\* [err, instructions, disk, written]
write(q, m, xs, old, forge_crc) ==
    write_file(q, m,
               IF q.module = "_qvm" THEN add_data_init_code(q, m, xs)
               ELSE qvm_add_data_init_code(q, m, xs),
               old, forge_crc)

\* old or new of replace_calls: a name is looked up in self.symbols
Resolve(q, f) ==
    IF f.kind = "name"
    THEN IF f.name \in DOMAIN q.symbols
         THEN [err |-> "ok", value |-> [kind |-> "int", v |-> q.symbols[f.name].value]]
         ELSE [err |-> "KeyError", value |-> None]
    ELSE [err |-> "ok", value |-> f]

\* the loop of replace_calls over the call sites left: [err, instructions]
RECURSIVE ReplaceLoop(_, _, _)
ReplaceLoop(xs, calls, new) ==
    IF calls = <<>> THEN [err |-> "ok", instructions |-> xs]
    ELSE LET set == SetOperand(xs[Head(calls) + 1], new)
         IN  IF set.err # "ok" THEN [err |-> set.err, instructions |-> xs]
             ELSE ReplaceLoop([xs EXCEPT ![Head(calls) + 1] = set.ins],
                              Tail(calls), new)

\* replace_calls with a bug: only the first call site is replaced
replace_callsFirst(q, xs, old, new) ==
    LET o == Resolve(q, old)
        n == Resolve(q, new)
    IN  IF o.err # "ok" THEN [err |-> o.err, instructions |-> xs, ret |-> 0]
        ELSE IF n.err # "ok" THEN [err |-> n.err, instructions |-> xs, ret |-> 0]
        ELSE LET calls == Calls(q, o.value.v)
                 r == ReplaceLoop(xs, SubSeq(calls, 1, Min(1, Len(calls))), n.value)
             IN  [err |-> r.err, instructions |-> r.instructions,
                  ret |-> IF r.err = "ok" THEN Len(calls) ELSE 0]

\* replace_calls with a bug: the call sites are looked for in the
\* instructions as they are now
replace_callsRescan(q, xs, old, new) ==
    LET o == Resolve(q, old)
        n == Resolve(q, new)
    IN  IF o.err # "ok" THEN [err |-> o.err, instructions |-> xs, ret |-> 0]
        ELSE IF n.err # "ok" THEN [err |-> n.err, instructions |-> xs, ret |-> 0]
        ELSE LET calls == Calls([calls |-> CallsLoop(xs, 0, [k \in {} |-> <<>>])],
                                o.value.v)
                 r == ReplaceLoop(xs, calls, n.value)
             IN  [err |-> r.err, instructions |-> r.instructions,
                  ret |-> IF r.err = "ok" THEN Len(calls) ELSE 0]

\* Qvm.replace_calls(old, new): [err, instructions, ret]
replace_calls(q, xs, old, new) ==
    LET o == Resolve(q, old)
        n == Resolve(q, new)
    IN  IF o.err # "ok" THEN [err |-> o.err, instructions |-> xs, ret |-> 0]
        ELSE IF n.err # "ok" THEN [err |-> n.err, instructions |-> xs, ret |-> 0]
        ELSE LET calls == Calls(q, o.value.v)
                 r == ReplaceLoop(xs, calls, n.value)
             IN  [err |-> r.err, instructions |-> r.instructions,
                  ret |-> IF r.err = "ok" THEN Len(calls) ELSE 0]

(***************************************************************************)
(* The image bench: a Qvm is made from a well-formed file, its methods are  *)
(* called and its memory is written in any order, and it is written to a   *)
(* file, more than once and with calls replaced in between.                *)
(***************************************************************************)
MaxMemory == 16          \* len(qvm.memory) stays within this many bytes
MaxQvmRegions == 4       \* data is added to a memory of fewer regions
MaxAdds == 2             \* add_data, add_lit and add_bss are called this often
MaxAddCode == 7          \* add_code is called on at most this many instructions
MaxProgram == 24         \* write is called on at most this many instructions

VM_MAGIC == <<4722, 5188>>       \* 0x12721444

Modules == {"_qvm", "qvm"}

\* the code of the files: function 0 is called twice and function 1 once
ProgramSamples ==
    { << Ins(CONST, IntOp(0)), Ins(CALL, None), Ins(CONST, IntOp(1)),
         Ins(CALL, None), Ins(CONST, IntOp(0)), Ins(CALL, None) >> }

\* the data, the lit and the length of the bss of the files
LayoutSamples ==
    { << <<5, 0, 0, 0>>, <<6>>, 1 >>,
      << <<5, 0, 0, 0>>, <<>>, 0 >>,
      << <<>>, <<>>, 0 >> }

\* a well-formed .qvm file
QvmFile(xs, data, lit, bss) ==
    LET image == pad(assemble(xs), 4)
    IN  struct_pack(<< VM_MAGIC, PyInt(Len(xs)), PyInt(HEADER_SIZE),
                       PyInt(Len(image)), PyInt(HEADER_SIZE + Len(image)),
                       PyInt(Len(data)), PyInt(Len(lit)),
                       PyInt(bss + STACK_SIZE) >>)
        \o image \o data \o lit

FileSamples ==
    { QvmFile(xs, layout[1], layout[2], layout[3]) :
          xs \in ProgramSamples, layout \in LayoutSamples }

NoSymbols == [name \in {} |-> PyInt(0)]

\* the symbols handed to Qvm(): none, an init function that is called, one
\* that is not (7), one behind another, a function to call instead (hook)
SymbolSamples ==
    { NoSymbols,
      "G_InitGame" :> PyInt(0) @@ "hook" :> PyInt(2),
      "G_InitGame" :> PyInt(7) @@ "CG_Init" :> PyInt(0) @@ "hook" :> PyInt(2),
      "CG_Init" :> PyInt(1) @@ "UI_Init" :> PyInt(0) @@ "hook" :> PyInt(2) }

\* the arguments of the calls
\* (data, alignment) of add_data and add_lit, size of add_bss
AddDataSamples == { << <<>>, 4 >>, << <<1>>, 4 >>, << <<0, 0, 0, 0>>, 2 >>,
                    << <<0, 0, 0, 0, 0, 1, 0, 0>>, 4 >> }
AddLitSamples == { << <<>>, 1 >>, << <<0, 3>>, 4 >> }
AddBssSamples == {-1, 2}
\* (i, value) of qvm.memory[i] = value: two of the last bytes added, and the
\* first byte of the data loaded
SetItemSamples == { <<-1, 9>>, <<-3, 0>>, <<0, 7>> }
\* what the path given to write holds: no file, a file
PathSamples == { <<>>, <<255>> }
AddCodeSamples == { <<Ins(CONST, IntOp(0)), Ins(CALL, None)>> }
Name(n) == [kind |-> "name", name |-> n]
OldSamples == {Name("G_InitGame"), IntOp(0), IntOp(1)}
NewSamples == {Name("hook"), [kind |-> "int", v |-> <<65536, 0>>]}

\* Qvm(path, symbols) on a file that it accepts
QvmInit ==
    \E module \in Modules, f \in FileSamples, symbols \in SymbolSamples :
        LET made == Load(module, f, symbols)
        IN  /\ made.err = "ok"
            /\ file = f
            /\ qvm = made.qvm
            /\ instructions = made.instructions
            /\ memory = made.memory
            /\ disk = <<>>
            /\ nadds = 0
            /\ reference = <<>>
            /\ nwrites = 0
            /\ code = <<>>
            /\ result = NoResult

\* what an add_data, add_lit or add_bss call leaves behind
QvmAdded(op, r) ==
    /\ memory' = r.mem
    /\ nadds' = nadds + 1
    /\ result' = [op |-> op, err |-> r.err, ret |-> r.ret]
    /\ UNCHANGED <<reference, nwrites, codecVars, qvm, file, disk>>

\* qvm.add_data(data, alignment)
QvmAddData(data, alignment) ==
    /\ result.op = "none"
    /\ disk = <<>>
    /\ nadds < MaxAdds
    /\ Len(memory.regions) < MaxQvmRegions
    /\ align(memory.size, alignment) + Len(data) <= MaxMemory
    /\ QvmAdded("add_data", add_data(qvm.module, memory, data, alignment))

\* qvm.add_lit(data, alignment)
QvmAddLit(data, alignment) ==
    /\ result.op = "none"
    /\ disk = <<>>
    /\ nadds < MaxAdds
    /\ Len(memory.regions) < MaxQvmRegions
    /\ align(memory.size, alignment) + Len(data) <= MaxMemory
    /\ QvmAdded("add_lit", add_lit(qvm.module, memory, data, alignment))

\* qvm.add_bss(size)
QvmAddBss(size) ==
    /\ result.op = "none"
    /\ disk = <<>>
    /\ nadds < MaxAdds
    /\ memory.size + size <= MaxMemory
    /\ QvmAdded("add_bss", Qvm_add_bss(qvm.module, memory, size, 1))

\* qvm.memory[i] = value
QvmSetItem(i, value) ==
    /\ result.op = "none"
    /\ disk = <<>>
    /\ nwrites < MaxWrites
    /\ LET r == SetItem(memory, i, value)
       IN  /\ memory' = r.mem
           /\ nwrites' = IF r.err = "ok" THEN nwrites + 1 ELSE nwrites
           /\ result' = [op |-> "setitem", err |-> r.err, i |-> i, value |-> value]
    /\ UNCHANGED <<reference, codecVars, qvmVars>>

\* qvm.add_code(new)
QvmAddCode(new) ==
    /\ result.op = "none"
    /\ disk = <<>>
    /\ Len(instructions) < MaxAddCode
    /\ LET r == add_code(instructions, new)
       IN  /\ instructions' = r.instructions
           /\ result' = [op |-> "add_code", err |-> "ok", ret |-> r.ret]
    /\ UNCHANGED <<memVars, code, qvmVars>>

\* qvm.replace_calls(old, new)
QvmReplaceCalls(old, new) ==
    /\ result.op = "none"
    /\ LET r == replace_calls(qvm, instructions, old, new)
       IN  /\ instructions' = r.instructions
           /\ result' = [op |-> "replace_calls", err |-> r.err, ret |-> r.ret,
                         old |-> Resolve(qvm, old).value,
                         new |-> Resolve(qvm, new).value,
                         before |-> instructions]
    /\ UNCHANGED <<memVars, code, qvmVars>>

\* what a write call leaves behind
QvmWritten(r, old, forge_crc) ==
    /\ instructions' = r.instructions
    /\ disk' = IF r.written THEN r.disk ELSE disk
    /\ result' = [op |-> "write", err |-> r.err, before |-> instructions,
                  old |-> old, now |-> r.disk, forge_crc |-> forge_crc]
    /\ UNCHANGED <<memVars, code, qvm, file, nadds>>

\* qvm.write(path, forge_crc=forge_crc), where path holds the bytes old
\* (none: no such file); disk keeps the last file that was written. write of
\* quatch/qvm.py has no parameter forge_crc
QvmWrite(old, forge_crc) ==
    /\ result.op = "none"
    /\ forge_crc => qvm.module = "_qvm"
    /\ Len(instructions) <= MaxProgram
    /\ QvmWritten(write(qvm, memory, instructions, old, forge_crc), old,
                  forge_crc)

Next ==
    \/ \E a \in AddDataSamples : QvmAddData(a[1], a[2])
    \/ \E a \in AddLitSamples : QvmAddLit(a[1], a[2])
    \/ \E size \in AddBssSamples : QvmAddBss(size)
    \/ \E w \in SetItemSamples : QvmSetItem(w[1], w[2])
    \/ \E new \in AddCodeSamples : QvmAddCode(new)
    \/ \E old \in OldSamples, new \in NewSamples : QvmReplaceCalls(old, new)
    \/ \E old \in PathSamples : QvmWrite(old, FALSE)
    \/ Return

Spec == QvmInit /\ [][Next]_vars

\* the same Qvm with writes that forge the checksum and writes that do not,
\* to a path that holds no file
ForgeNext ==
    \/ \E a \in AddDataSamples : QvmAddData(a[1], a[2])
    \/ \E a \in AddLitSamples : QvmAddLit(a[1], a[2])
    \/ \E w \in SetItemSamples : QvmSetItem(w[1], w[2])
    \/ \E new \in AddCodeSamples : QvmAddCode(new)
    \/ \E forge_crc \in BOOLEAN : QvmWrite(<<>>, forge_crc)
    \/ Return

SpecForge == QvmInit /\ [][ForgeNext]_vars

(***************************************************************************)
(* Compiled code.  Qvm.add_c_code hands C code to the compiler lcc, which  *)
(* fails or writes an assembly file, and the file to an assembler:         *)
(* quatch/q3asm.py for quatch/qvm.py, quatch/_q3asm.py for quatch/_qvm.py. *)
(* A line of the file is kept by its tokens, a symbol of the assembler as  *)
(* [segment, value] and a segment by its name; "fake" is the segment of    *)
(* the symbols handed in, "unset" the attribute current_segment before the *)
(* first segment line.                                                     *)
(***************************************************************************)
Seg(name) == [op |-> "segment", name |-> name]
Proc(name, locals, args) ==
    [op |-> "proc", name |-> name, locals |-> locals, args |-> args]
EndProc == [op |-> "endproc"]
AddrGP4(name) == [op |-> "ADDRGP4", name |-> name]
CallV == [op |-> "CALLV"]
LabelV(name) == [op |-> "LABELV", name |-> name]
Byte(size, value) == [op |-> "byte", size |-> size, value |-> value]
Skip(size) == [op |-> "skip", size |-> size]
Other == [op |-> "other"]
RetI4 == [op |-> "RETI4"]
CnstI4(value) == [op |-> "CNSTI4", value |-> value]
AddrLP4(value) == [op |-> "ADDRLP4", value |-> value]
AddrFP4(value) == [op |-> "ADDRFP4", value |-> value]
ArgI4 == [op |-> "ARGI4"]
Equ(name, value) == [op |-> "equ", name |-> name, value |-> value]
AlignTo(alignment) == [op |-> "align", alignment |-> alignment]
AddressOf(name) == [op |-> "address", name |-> name]

\* the names lcc gives to the labels of a file
LocalNames == {"$1"}

\* name += f"_{self.current_file_index}" for a name that starts with "$"
FileLocal(name, index) ==
    IF name \in LocalNames THEN name \o "_" \o ToString(index) ELSE name

\* a Segment object: the one pass p made for file i under the name given.
\* Assembler.assemble of quatch/q3asm.py keeps its four objects throughout
SegId(p, i, name) == <<p, i, name>>
Fake == SegId(-1, -1, "fake")
Unset == SegId(-1, -1, "unset")
SegmentNames == {"code", "data", "lit", "bss"}

\* segment.segment_base
SegBase(s, segment) == IF segment = Fake THEN 0 ELSE s.base[segment]

\* a define_symbol that defines in the second pass
define_symbolSecondPass(s, name, value) ==
    IF s.pass_number = 0 THEN s
    ELSE IF name \in DOMAIN s.symbols THEN [s EXCEPT !.err = "AssemblerError"]
    ELSE IF s.current_segment = Unset THEN [s EXCEPT !.err = "AttributeError"]
    ELSE [s EXCEPT !.symbols = (FileLocal(name, s.current_file_index) :>
                                    [segment |-> s.current_segment, value |-> value])
                                @@ @,
                   !.last_symbol = FileLocal(name, s.current_file_index)]

\* Assembler.define_symbol
define_symbol(s, name, value) ==
    IF s.pass_number = 1 THEN s
    ELSE IF name \in DOMAIN s.symbols THEN [s EXCEPT !.err = "AssemblerError"]
    ELSE IF s.current_segment = Unset THEN [s EXCEPT !.err = "AttributeError"]
    ELSE [s EXCEPT !.symbols = (FileLocal(name, s.current_file_index) :>
                                    [segment |-> s.current_segment, value |-> value])
                                @@ @,
                   !.last_symbol = FileLocal(name, s.current_file_index)]

\* Assembler.lookup_symbol: [err, value]
lookup_symbol(s, name) ==
    IF s.pass_number = 0 THEN [err |-> "ok", value |-> 0]
    ELSE IF FileLocal(name, s.current_file_index) \notin DOMAIN s.symbols
    THEN [err |-> "AssemblerError", value |-> 0]
    ELSE LET symbol == s.symbols[FileLocal(name, s.current_file_index)]
         IN  [err |-> "ok", value |-> SegBase(s, symbol.segment) + symbol.value]

\* Assembler.hack_to_segment.  In the first pass the last symbol defined
\* moves to the segment; quatch/q3asm.py stops there at the name
\* current_segment, which is not defined
hack_to_segment(s, name) ==
    LET segment == s.segments[name]
    IN  IF s.current_segment = Unset THEN [s EXCEPT !.err = "AttributeError"]
        ELSE IF s.current_segment = segment THEN s
        ELSE IF s.pass_number = 1 THEN [s EXCEPT !.current_segment = segment]
        ELSE IF s.last_symbol = "" THEN [s EXCEPT !.err = "AttributeError"]
        ELSE IF s.fork = "q3asm" THEN [s EXCEPT !.err = "NameError"]
        ELSE [s EXCEPT !.current_segment = segment,
                       !.symbols[s.last_symbol] =
                           [segment |-> segment, value |-> Len(s.image[segment])]]

\* a byte in a list of instructions: quatch/_q3asm.py keeps the code of a
\* file in a list, and a list takes bytes as ints
RawByte(b) == [opcode |-> -1, operand |-> b]

\* self.current_segment.image += data
Emit(s, data) ==
    IF s.err # "ok" THEN s
    ELSE IF s.current_segment = Unset THEN [s EXCEPT !.err = "AttributeError"]
    ELSE IF s.fork = "_q3asm" /\ s.current_segment[3] = "code"
    THEN [s EXCEPT !.image[s.current_segment] =
                       @ \o [k \in 1..Len(data) |-> RawByte(data[k])]]
    ELSE [s EXCEPT !.image[s.current_segment] = @ \o data]

\* the address handed to a line: code_base + len(instructions) in
\* quatch/q3asm.py, len(self.segments["code"].image) in quatch/_q3asm.py
LineAddress(s) ==
    IF s.fork = "q3asm" THEN s.code_base + Len(s.instructions)
    ELSE Len(s.image[s.segments.code])

\* the instructions a line returns are added to those of the pass
\* (quatch/q3asm.py) or of the file (quatch/_q3asm.py)
Emitted(s, new) ==
    IF s.err # "ok" THEN s
    ELSE IF s.fork = "q3asm" THEN [s EXCEPT !.instructions = @ \o new]
    ELSE [s EXCEPT !.image[s.segments.code] = @ \o new]

\* the proc line after its define_symbol
ProcDefined(s, line) ==
    IF s.err # "ok" THEN s
    ELSE Emitted([s EXCEPT !.current_locals = align(line.locals, 4),
                           !.current_args = align(line.args, 4)],
                 << Ins(ENTER, IntOp(8 + align(line.locals, 4)
                                       + align(line.args, 4))) >>)

\* an instruction with the value of a symbol for its operand
WithSymbol(s, opcode, found) ==
    IF found.err # "ok" THEN [s EXCEPT !.err = found.err]
    ELSE Emitted(s, << Ins(opcode, IntOp(found.value)) >>)

\* the align line: quatch/q3asm.py pads the image, quatch/_q3asm.py pads
\* to a multiple counted from the base of the segment
Aligned(s, alignment) ==
    IF s.current_segment = Unset THEN [s EXCEPT !.err = "AttributeError"]
    ELSE IF s.fork = "q3asm"
    THEN Emit(s, Zeros(align(Len(s.image[s.current_segment]), alignment)
                       - Len(s.image[s.current_segment])))
    ELSE LET x == SegBase(s, s.current_segment) + Len(s.image[s.current_segment])
         IN  Emit(s, Zeros(align(x, alignment) - x))

\* the address line after parse_expression: emit_int of quatch/q3asm.py is
\* not defined
AddressEmitted(s, found) ==
    IF found.err # "ok" THEN [s EXCEPT !.err = found.err]
    ELSE LET h == hack_to_segment(s, "data")
         IN  IF h.err # "ok" THEN h
             ELSE IF s.fork = "q3asm" THEN [h EXCEPT !.err = "NameError"]
             ELSE Emit(h, to_bytes(PyInt(found.value), 4))

\* the LABEL line
Labelled(s, name) ==
    IF s.current_segment = Unset THEN [s EXCEPT !.err = "AttributeError"]
    ELSE define_symbol(s, name,
                       IF s.current_segment = s.segments.code
                       THEN LineAddress(s)
                       ELSE Len(s.image[s.current_segment]))

\* Assembler._assemble_line with the instructions it returns, for the lines
\* above
assemble_line(s, line) ==
    IF line.op = "segment"
    THEN [s EXCEPT !.current_segment = s.segments[line.name]]
    ELSE IF line.op = "proc"
    THEN ProcDefined(define_symbol(s, line.name, LineAddress(s)), line)
    ELSE IF line.op = "endproc"
    THEN Emitted(s, << Ins(PUSH, None),
                       Ins(LEAVE, IntOp(8 + s.current_locals + s.current_args)) >>)
    ELSE IF line.op = "RETI4"
    THEN Emitted(s, << Ins(LEAVE, IntOp(8 + s.current_locals + s.current_args)) >>)
    ELSE IF line.op = "ADDRFP4"
    THEN Emitted(s, << Ins(OP_LOCAL, IntOp(line.value + 16 + s.current_args
                                            + s.current_locals)) >>)
    ELSE IF line.op = "ADDRLP4"
    THEN Emitted(s, << Ins(OP_LOCAL, IntOp(line.value + 8 + s.current_args)) >>)
    ELSE IF line.op = "CNSTI4"
    THEN Emitted(s, << Ins(CONST, IntOp(line.value)) >>)
    ELSE IF line.op = "ADDRGP4"
    THEN WithSymbol(s, CONST, lookup_symbol(s, line.name))
    ELSE IF line.op = "CALLV"
    THEN Emitted([s EXCEPT !.current_arg_offset = 0], << Ins(CALL, None) >>)
    ELSE IF line.op = "ARGI4"
    THEN Emitted([s EXCEPT !.current_arg_offset = @ + 4],
                 << Ins(ARG, IntOp(8 + s.current_arg_offset + 4 - 4)) >>)
    ELSE IF line.op = "LABELV" THEN Labelled(s, line.name)
    ELSE IF line.op = "equ" THEN define_symbol(s, line.name, line.value)
    ELSE IF line.op = "align" THEN Aligned(s, line.alignment)
    ELSE IF line.op = "address"
    THEN AddressEmitted(s, lookup_symbol(s, line.name))
    ELSE IF line.op = "byte"
    THEN Emit(IF line.size = 1 THEN hack_to_segment(s, "lit")
              ELSE IF line.size = 4 THEN hack_to_segment(s, "data")
              ELSE s,
              to_bytes(PyInt(line.value), line.size))
    ELSE IF line.op = "skip" THEN Emit(s, Zeros(line.size))
    ELSE [s EXCEPT !.err = "AssemblerError"]

\* the loop over the lines of a file, from line k on
RECURSIVE assemble_lines(_, _, _)
assemble_lines(s, lines, k) ==
    IF s.err # "ok" \/ k > Len(lines) THEN s
    ELSE assemble_lines(assemble_line(s, lines[k]), lines, k + 1)

\* the loop of Assembler.assemble over the files, from file i (from 0) on
RECURSIVE assemble_files(_, _, _)
assemble_files(s, input_files, i) ==
    IF s.err # "ok" \/ i >= Len(input_files) THEN s
    ELSE assemble_files(
             assemble_lines([s EXCEPT !.current_file_index = i],
                            input_files[i + 1], 1),
             input_files, i + 1)

\* the four Segment objects of Assembler.assemble
OwnSegments == [name \in SegmentNames |-> SegId(0, 0, name)]

\* the head of the loop over the passes: the bases of the segments follow
\* from the images of the pass before, the images start anew
StartPass(s, pass_number, data_base) ==
    [s EXCEPT !.pass_number = pass_number,
              !.base = (s.segments.data :> data_base)
                    @@ (s.segments.lit :> data_base + Len(s.image[s.segments.data]))
                    @@ (s.segments.bss :> data_base + Len(s.image[s.segments.data])
                                              + Len(s.image[s.segments.lit]))
                    @@ @,
              !.image = [id \in DOMAIN s.image |->
                            IF id = s.segments.data THEN Zeros(4) ELSE <<>>],
              !.instructions = <<>>]

\* the end of a pass: the images are padded
EndPass(s) ==
    IF s.err # "ok" THEN s
    ELSE [s EXCEPT !.image = [id \in DOMAIN s.image |-> pad(s.image[id], 4)]]

\* one pass over the files
Pass(s, pass_number, input_files, data_base) ==
    IF s.err # "ok" THEN s
    ELSE EndPass(assemble_files(StartPass(s, pass_number, data_base),
                                input_files, 0))

\* the symbols of the assembler as addresses
SymbolAddresses(s) ==
    [name \in DOMAIN s.symbols |->
        s.symbols[name].value + SegBase(s, s.symbols[name].segment)]

\* what Assembler.assemble returns: [err, instructions, segments, symbols],
\* with the segment_base of the segments in bases
Assembled(s) ==
    [err |-> s.err, instructions |-> s.instructions,
     segments |-> [name \in SegmentNames |-> s.image[s.segments[name]]],
     bases |-> [name \in SegmentNames |-> s.base[s.segments[name]]],
     symbols |-> SymbolAddresses(s)]

\* the Assembler before the first pass, with the symbols handed in
Seeded(fork, code_base, symbols) ==
    [fork |-> fork, err |-> "ok", pass_number |-> 0, code_base |-> code_base,
     current_file_index |-> 0,
     symbols |-> [name \in DOMAIN symbols |->
                     [segment |-> Fake, value |-> IntOf(symbols[name].value)]],
     segments |-> OwnSegments,
     base |-> [id \in {SegId(0, 0, name) : name \in SegmentNames} |-> 0],
     image |-> [id \in {SegId(0, 0, name) : name \in SegmentNames} |-> <<>>],
     instructions |-> <<>>,
     rets |-> <<>>,
     current_segment |-> Unset, last_symbol |-> "",
     current_locals |-> 0, current_args |-> 0, current_arg_offset |-> 0]

\* the first pass of Assembler.assemble of quatch/q3asm.py
q3asm_first_pass(input_files, code_base, data_base, symbols) ==
    Pass(Seeded("q3asm", code_base, symbols), 0, input_files, data_base)

\* Assembler.assemble of quatch/q3asm.py
q3asm_assemble(input_files, code_base, data_base, symbols) ==
    Assembled(Pass(q3asm_first_pass(input_files, code_base, data_base, symbols),
                   1, input_files, data_base))

\* Assembler.assemble of quatch/_q3asm.py: Symbol() lacks its type for a
\* symbol handed in, and _assemble_line does not take the address it is
\* called with, so the first line of the first file that has one ends the
\* call
Assembler_assemble(input_files, code_base, data_base, symbols) ==
    IF DOMAIN symbols # {} \/ \E i \in 1..Len(input_files) : input_files[i] # <<>>
    THEN [err |-> "TypeError", instructions |-> <<>>,
          segments |-> [name \in SegmentNames |-> <<>>],
          bases |-> [name \in SegmentNames |-> 0],
          symbols |-> [name \in {} |-> 0]]
    ELSE [err |-> "ok", instructions |-> <<>>,
          segments |-> [name \in SegmentNames |-> <<>>],
          bases |-> [name \in SegmentNames |->
                        IF name = "code" THEN 0 ELSE data_base],
          symbols |-> [name \in {} |-> 0]]

\* the Segment objects my_assemble makes for file i: a segment starts where
\* that of the file before ends, or at the base the file comes with, and
\* data that starts at 0 starts with four bytes
FileSegments(s, i, base_map) ==
    LET ids == [name \in SegmentNames |-> SegId(s.pass_number, i, name)]
    IN  [s EXCEPT
            !.current_file_index = i,
            !.segments = ids,
            !.base = [id \in {ids[name] : name \in SegmentNames} |->
                         IF id[3] \in DOMAIN base_map THEN base_map[id[3]]
                         ELSE s.base[s.segments[id[3]]]
                              + Len(s.image[s.segments[id[3]]])] @@ @,
            !.image = [id \in {ids[name] : name \in SegmentNames} |->
                          IF id[3] = "data" /\ id[3] \in DOMAIN base_map
                                            /\ base_map[id[3]] = 0
                          THEN Zeros(4) ELSE <<>>] @@ @]

\* the segments of a file are returned when the second pass is through it
FileDone(s) ==
    IF s.err = "ok" /\ s.pass_number = 1
    THEN [s EXCEPT !.rets = Append(@, s.segments)]
    ELSE s

\* the loop of my_assemble over the files, from file i (from 0) on
RECURSIVE my_files(_, _, _)
my_files(s, input_files, i) ==
    IF s.err # "ok" \/ i >= Len(input_files) THEN s
    ELSE my_files(FileDone(assemble_lines(
                               FileSegments(s, i, input_files[i + 1].base_map),
                               input_files[i + 1].lines, 1)),
                  input_files, i + 1)

\* one pass of my_assemble: four new segments, then the files
MyPass(s, pass_number, input_files) ==
    IF s.err # "ok" THEN s
    ELSE my_files(
             [s EXCEPT
                 !.pass_number = pass_number,
                 !.segments = [name \in SegmentNames |->
                                  SegId(pass_number, -1, name)],
                 !.base = [id \in {SegId(pass_number, -1, name) :
                                       name \in SegmentNames} |-> 0] @@ @,
                 !.image = [id \in {SegId(pass_number, -1, name) :
                                        name \in SegmentNames} |-> <<>>] @@ @],
             input_files, 0)

\* the first pass of my_assemble
my_first_pass(input_files, symbols) ==
    MyPass(Seeded("_q3asm", 0, symbols), 0, input_files)

\* the code of the files k, k+1, .. of a pass, one after another
RECURSIVE FilesCode(_, _, _)
FilesCode(s, p, k) ==
    IF SegId(p, k, "code") \notin DOMAIN s.image THEN <<>>
    ELSE s.image[SegId(p, k, "code")] \o FilesCode(s, p, k + 1)

\* Assembler.my_assemble of quatch/_q3asm.py: [err, rets, symbols], and the
\* code of the files in one list
my_assemble(input_files, symbols) ==
    LET s == MyPass(my_first_pass(input_files, symbols), 1, input_files)
    IN  [err |-> s.err,
         instructions |-> FilesCode(s, 1, 0),
         rets |-> [k \in 1..Len(s.rets) |->
                      [name \in SegmentNames |->
                          [segment_base |-> s.base[s.rets[k][name]],
                           image |-> s.image[s.rets[k][name]]]]],
         symbols |-> SymbolAddresses(s)]

(***************************************************************************)
(* The bench of the assembler: a caller writes assembly files line by line *)
(* and hands them to Assembler.assemble of quatch/q3asm.py, to             *)
(* Assembler.assemble of quatch/_q3asm.py or to Assembler.my_assemble of   *)
(* quatch/_q3asm.py.  code holds the files, file the kind of lines the     *)
(* caller writes and the arguments of the call.                            *)
(***************************************************************************)
MaxLines == 5            \* a caller writes at most this many lines
MaxFiles == 2            \* into at most this many files

NoBases == [name \in {} |-> 0]

\* the callers: one writes procedures, one calls and arguments, two write
\* labels and references to them, with and without a symbol of their own,
\* two write data, with and without bases of their own for my_assemble
Profiles ==
    { [name |-> "frame", max_lines |-> MaxLines, max_files |-> 1,
       lines |-> { Seg("code"), Proc("foo", 8, 4), Proc("g", 5, 3), CnstI4(42),
                   RetI4, EndProc, AddrLP4(4), AddrFP4(4) },
       code_base |-> 0, data_base |-> 0, symbols |-> NoSymbols,
       base_map |-> NoBases],
      [name |-> "args", max_lines |-> MaxLines - 1, max_files |-> MaxFiles,
       lines |-> { Seg("code"), Proc("f", 0, 0), EndProc, CallV, ArgI4 },
       code_base |-> 0, data_base |-> 0, symbols |-> NoSymbols,
       base_map |-> NoBases],
      [name |-> "symbols", max_lines |-> MaxLines, max_files |-> MaxFiles,
       lines |-> { Seg("code"), LabelV("f"), LabelV("$1"), AddrGP4("f"),
                   AddrGP4("$1"), Equ("f", 3) },
       code_base |-> 6, data_base |-> 8, symbols |-> NoSymbols,
       base_map |-> NoBases],
      [name |-> "seeded", max_lines |-> MaxLines - 2, max_files |-> 1,
       lines |-> { Seg("code"), Proc("f", 0, 0), LabelV("f"), LabelV("$1"),
                   AddrGP4("f"), Equ("f", 3) },
       code_base |-> 6, data_base |-> 8,
       symbols |-> "f" :> [value |-> PyInt(3), type |-> "code"],
       base_map |-> NoBases],
      [name |-> "layout", max_lines |-> MaxLines - 1, max_files |-> 1,
       lines |-> { Seg("data"), Seg("lit"), Seg("bss"), LabelV("x"), Byte(1, 5),
                   Byte(4, 7), Skip(2), AlignTo(4), AddressOf("x") },
       code_base |-> 0, data_base |-> 8, symbols |-> NoSymbols,
       base_map |-> NoBases],
      [name |-> "based", max_lines |-> MaxLines - 1, max_files |-> 1,
       lines |-> { Seg("data"), Seg("lit"), LabelV("x"), Byte(1, 5),
                   Byte(4, 7), AlignTo(4), AddressOf("x") },
       code_base |-> 0, data_base |-> 0, symbols |-> NoSymbols,
       base_map |-> [data |-> 0, lit |-> 16, bss |-> 32]] }

AllLines == UNION { p.lines : p \in Profiles }

Entries == {"q3asm", "_q3asm", "my"}

\* the number of lines in the files
RECURSIVE TotalLines(_)
TotalLines(files) ==
    IF files = <<>> THEN 0 ELSE Len(Head(files)) + TotalLines(Tail(files))

AsmInit ==
    /\ \E p \in Profiles : file = p
    /\ code = << <<>> >>
    /\ memory = [regions |-> <<>>, size |-> 0]
    /\ reference = <<>>
    /\ nwrites = 0
    /\ instructions = <<>>
    /\ qvm = NoQvm
    /\ disk = <<>>
    /\ nadds = 0
    /\ result = NoResult

\* the caller writes a line to the last file
AsmLine(line) ==
    /\ result.op = "none"
    /\ line \in file.lines
    /\ TotalLines(code) < file.max_lines
    /\ code' = [code EXCEPT ![Len(code)] = Append(@, line)]
    /\ UNCHANGED <<memVars, instructions, qvmVars, result>>

\* the caller starts another file
AsmFile ==
    /\ result.op = "none"
    /\ Len(code) < file.max_files
    /\ code[Len(code)] # <<>>
    /\ code' = Append(code, <<>>)
    /\ UNCHANGED <<memVars, instructions, qvmVars, result>>

\* what the caller sees of an assembly: the outcome, the instructions, the
\* segments (of each file, for my_assemble) and the symbols; first is what
\* the first pass had left: the names defined and the instructions
AsmDone(entry, r, segments, first, code_base) ==
    /\ result' = [op |-> "assemble", entry |-> entry, err |-> r.err,
                  instructions |-> r.instructions, segments |-> segments,
                  symbols |-> r.symbols, code_base |-> code_base,
                  first |-> first]
    /\ UNCHANGED <<memVars, codecVars, qvmVars>>

\* the names defined and the instructions at the end of a first pass
FirstOf(s, xs) ==
    [err |-> s.err, defined |-> DOMAIN s.symbols, instructions |-> xs]

\* the segments Assembler.assemble returns, as those of one file
OneFile(r) ==
    << [name \in SegmentNames |->
           [segment_base |-> r.bases[name], image |-> r.segments[name]]] >>

\* Assembler().assemble(files, code_base, data_base, symbols=symbols) of
\* quatch/q3asm.py
AsmAssemble ==
    /\ result.op = "none"
    /\ LET r == q3asm_assemble(code, file.code_base, file.data_base, file.symbols)
           s == q3asm_first_pass(code, file.code_base, file.data_base, file.symbols)
       IN  AsmDone("q3asm", r, OneFile(r), FirstOf(s, s.instructions),
                   file.code_base)

\* Assembler(False).assemble(files, code_base, data_base, symbols=symbols)
\* of quatch/_q3asm.py
AsmAssemblerAssemble ==
    /\ result.op = "none"
    /\ LET r == Assembler_assemble(code, file.code_base, file.data_base,
                                   file.symbols)
       IN  AsmDone("_q3asm", r, OneFile(r),
                   [err |-> r.err, defined |-> {}, instructions |-> <<>>],
                   file.code_base)

\* the files as my_assemble takes them
WithBases(files, base_map) ==
    [k \in 1..Len(files) |->
        [lines |-> files[k], base_map |-> IF k = 1 THEN base_map ELSE NoBases]]

\* Assembler(False).my_assemble(files, symbols) of quatch/_q3asm.py, the
\* first file with the bases of the caller
AsmMyAssemble ==
    /\ result.op = "none"
    /\ LET r == my_assemble(WithBases(code, file.base_map), file.symbols)
           s == my_first_pass(WithBases(code, file.base_map), file.symbols)
       IN  AsmDone("my", r, r.rets, FirstOf(s, FilesCode(s, 0, 0)), 0)

AsmNext ==
    \/ \E line \in AllLines : AsmLine(line)
    \/ AsmFile
    \/ AsmAssemble
    \/ AsmAssemblerAssemble
    \/ AsmMyAssemble
    \/ Return

SpecAsm == AsmInit /\ [][AsmNext]_vars

(***************************************************************************)
(* Properties of the assembler                                             *)
(***************************************************************************)
\* the lines of the files, one file after another
RECURSIVE Flat(_)
Flat(files) == IF files = <<>> THEN <<>> ELSE Head(files) \o Flat(Tail(files))

IsCallOrArg(line) == line.op \in {"CALLV", "ARGI4"}

\* the number of lines from the line after the last CALL* line before line
\* k, or from the first line, to line k
SinceCall(lines, k) ==
    LET calls == {j \in 1..k : lines[j].op = "CALLV"}
    IN  k - (CHOOSE j \in calls \cup {0} : \A i \in calls : i <= j)

\* CALL for a CALL* line, ARG (8 + 4(n-1)) for the n-th ARG* line since the
\* last CALL* line, where the lines of before were read first
ExpectedCalls(lines, before) ==
    [k \in 1..Len(lines) |->
        IF lines[k].op = "CALLV" THEN Ins(CALL, None)
        ELSE Ins(ARG, IntOp(8 + 4 * (SinceCall(before \o lines, Len(before) + k)
                                      - 1)))]

\* the CALL and ARG instructions of an assembly that returned
CallsReturned ==
    SelectSeq(result.instructions, LAMBDA x : x.opcode \in {CALL, ARG})

\* C24: in the instructions returned, every CALL* line is a CALL and the
\* n-th ARG* line since the last CALL* line, or since the start of the input,
\* is ARG (8 + 4(n-1)), for any input
C24_ArgOffsetsCountFromTheLastCall ==
    (result.op = "assemble" /\ result.err = "ok")
        => CallsReturned
               = ExpectedCalls(SelectSeq(Flat(code), IsCallOrArg), <<>>)

\* what the code does: current_arg_offset is set to 0 once, before the
\* first pass, so the ARG* lines before the first CALL* line of the second
\* pass count on from the last CALL* line of the first pass
ArgOffsetsCountOnFromTheFirstPass ==
    (result.op = "assemble" /\ result.err = "ok")
        => CallsReturned
               = ExpectedCalls(SelectSeq(Flat(code), IsCallOrArg),
                               SelectSeq(Flat(code), IsCallOrArg))

\* reached: ARGI4 alone is returned as ARG 12
ArgBeforeAnyCall ==
    /\ result.op = "assemble" /\ result.err = "ok"
    /\ code = << << ArgI4 >> >>
    /\ result.instructions = << Ins(ARG, IntOp(12)) >>

\* reached: after a CALL* line the offsets are those claimed, in a second
\* file as well
ArgsAfterCallInSecondFile ==
    /\ result.op = "assemble" /\ result.err = "ok"
    /\ code = << << CallV, ArgI4 >>, << ArgI4 >> >>
    /\ result.instructions
           = << Ins(CALL, None), Ins(ARG, IntOp(8)), Ins(ARG, IntOp(12)) >>

\* the lines that define a symbol
Defines(line) == line.op \in {"proc", "LABELV", "equ"}

\* the places of the lines: <<file, line>>, both from 1
Positions(files) ==
    UNION { {<<i, k>> : k \in 1..Len(files[i])} : i \in 1..Len(files) }

\* a name handed in is defined, or a name is defined at two places, a name
\* that starts with "$" at two places of one file
DefinedTwice(files, symbols) ==
    \/ \E p \in Positions(files) :
          Defines(files[p[1]][p[2]]) /\ files[p[1]][p[2]].name \in DOMAIN symbols
    \/ \E p, q \in Positions(files) :
          /\ p # q
          /\ Defines(files[p[1]][p[2]]) /\ Defines(files[q[1]][q[2]])
          /\ files[p[1]][p[2]].name = files[q[1]][q[2]].name
          /\ files[p[1]][p[2]].name \in LocalNames => p[1] = q[1]

\* the same, for the names that do not start with "$"
GlobalDefinedTwice(files, symbols) ==
    \/ \E p \in Positions(files) :
          Defines(files[p[1]][p[2]]) /\ files[p[1]][p[2]].name \in DOMAIN symbols
    \/ \E p, q \in Positions(files) :
          /\ p # q
          /\ Defines(files[p[1]][p[2]]) /\ Defines(files[q[1]][q[2]])
          /\ files[p[1]][p[2]].name = files[q[1]][q[2]].name
          /\ files[p[1]][p[2]].name \notin LocalNames

\* the lines before line k of file i
LinesBefore(files, i, k) == Flat(SubSeq(files, 1, i - 1)) \o SubSeq(files[i], 1, k - 1)

\* the number of instructions of the lines before line k of file i, for
\* files of segment lines, labels, equ and ADDRGP4
CodeBefore(files, i, k) ==
    Len(SelectSeq(LinesBefore(files, i, k), LAMBDA line : line.op = "ADDRGP4"))

\* the input starts with the line `code`, as the output of lcc does; for
\* my_assemble every file does, since it makes the Segment objects anew
\* for each file and self.current_segment stays that of the file before
CodeFirst(files, entry) ==
    /\ files[1] # <<>> /\ files[1][1] = Seg("code")
    /\ entry = "my" =>
           \A i \in 1..Len(files) : files[i] # <<>> => files[i][1] = Seg("code")

\* an assembly by Assembler.assemble of quatch/q3asm.py or by my_assemble,
\* of files that start with the line `code`, by a caller of labels
OfLabels ==
    /\ result.op = "assemble" /\ result.entry \in {"q3asm", "my"}
    /\ file.name \in {"symbols", "seeded"}
    /\ CodeFirst(code, result.entry)

\* every reference to "$1" in a file is the address of the label "$1" of
\* that file, which is the address of the instruction after the label
LocalsResolvePerFile ==
    \A p \in Positions(code) :
        code[p[1]][p[2]] = AddrGP4("$1") =>
            /\ FileLocal("$1", p[1] - 1) \in DOMAIN result.symbols
            /\ result.instructions[CodeBefore(code, p[1], p[2]) + 1]
                   = Ins(CONST, IntOp(result.symbols[FileLocal("$1", p[1] - 1)]))
            /\ \E k \in 1..Len(code[p[1]]) :
                  /\ code[p[1]][k] = LabelV("$1")
                  /\ result.symbols[FileLocal("$1", p[1] - 1)]
                         = result.code_base + CodeBefore(code, p[1], k)

\* C23: every second definition of a symbol fails with AssemblerError (a
\* name handed in, a global name defined twice, a "$" name defined twice in
\* one file); the same "$" name in two files does not collide and the
\* references of each file resolve to the definition of that file
C23_SecondDefinitionFails ==
    OfLabels =>
        /\ DefinedTwice(code, file.symbols) => result.first.err = "AssemblerError"
        /\ (~DefinedTwice(code, file.symbols) /\ result.err = "ok")
               => LocalsResolvePerFile

\* what the code does: the test `name in self.symbols` is made before the
\* file index is appended to a "$" name, so it finds global names only
GlobalSecondDefinitionFails ==
    OfLabels =>
        /\ GlobalDefinedTwice(code, file.symbols)
               <=> result.first.err = "AssemblerError"
        /\ result.err = "ok" => LocalsResolvePerFile

\* reached: a "$" label defined twice in one file is assembled
LocalDefinedTwiceAssembles ==
    /\ OfLabels /\ result.err = "ok"
    /\ code = << << Seg("code"), LabelV("$1"), AddrGP4("$1"), LabelV("$1"),
                   AddrGP4("$1") >> >>

\* reached: a name handed in is defined again, and the assembly fails
SeededDefinedAgain ==
    /\ OfLabels /\ result.first.err = "AssemblerError"
    /\ code = << << Seg("code"), LabelV("f") >> >>
    /\ "f" \in DOMAIN file.symbols

\* reached: two files with a label "$1" each, and references to them that
\* differ
LocalsInTwoFiles ==
    /\ OfLabels /\ result.err = "ok"
    /\ Len(code) = 2
    /\ \E k \in 1..Len(code[1]) : code[1][k] = AddrGP4("$1")
    /\ \E k \in 1..Len(code[2]) : code[2][k] = AddrGP4("$1")
    /\ result.symbols["$1_0"] # result.symbols["$1_1"]

\* the frame of `proc NAME L A`: 8 + align(L,4) + align(A,4)
FrameOf(locals, args) == 8 + align(locals, 4) + align(args, 4)

\* the instructions the lines of a procedure stand for, where the last proc
\* line before them had the locals and args given
RECURSIVE Lowered(_, _, _)
Lowered(lines, locals, args) ==
    IF lines = <<>> THEN <<>>
    ELSE LET line == Head(lines)
         IN  IF line.op = "proc"
             THEN << Ins(ENTER, IntOp(FrameOf(line.locals, line.args))) >>
                      \o Lowered(Tail(lines), line.locals, line.args)
             ELSE (IF line.op = "RETI4"
                   THEN << Ins(LEAVE, IntOp(FrameOf(locals, args))) >>
                   ELSE IF line.op = "endproc"
                   THEN << Ins(PUSH, None), Ins(LEAVE, IntOp(FrameOf(locals, args))) >>
                   ELSE IF line.op = "ADDRLP4"
                   THEN << Ins(OP_LOCAL, IntOp(line.value + 8 + align(args, 4))) >>
                   ELSE IF line.op = "ADDRFP4"
                   THEN << Ins(OP_LOCAL, IntOp(line.value + 16 + align(args, 4)
                                                + align(locals, 4))) >>
                   ELSE IF line.op = "CNSTI4"
                   THEN << Ins(CONST, IntOp(line.value)) >>
                   ELSE <<>>)
                      \o Lowered(Tail(lines), locals, args)

\* the proc lines
Procs(lines) == {k \in 1..Len(lines) : lines[k].op = "proc"}

\* the lines from the first proc line on
FromFirstProc(lines) ==
    IF Procs(lines) = {} THEN <<>>
    ELSE SubSeq(lines, CHOOSE k \in Procs(lines) : \A j \in Procs(lines) : k <= j,
                Len(lines))

\* the last n of xs
Last(xs, n) == SubSeq(xs, Len(xs) - n + 1, Len(xs))

\* the example of the specification
ProcExample == << Proc("foo", 8, 4), CnstI4(42), RetI4, EndProc >>

\* the instructions and the symbol the specification gives for it
ProcExampleLowered ==
    /\ result.err = "ok"
    /\ result.instructions
           = << Ins(ENTER, IntOp(20)), Ins(CONST, IntOp(42)), Ins(LEAVE, IntOp(20)),
                Ins(PUSH, None), Ins(LEAVE, IntOp(20)) >>
    /\ "foo" \in DOMAIN result.symbols
    /\ result.symbols["foo"] = result.code_base

\* in an assembly that returned, the lines from the first proc line on are
\* lowered with the frame of the last proc line before them, and the name
\* of each proc is the address of its ENTER
ProcsLowered ==
    /\ Len(result.instructions) >= Len(Lowered(FromFirstProc(Flat(code)), 0, 0))
    /\ Last(result.instructions, Len(Lowered(FromFirstProc(Flat(code)), 0, 0)))
           = Lowered(FromFirstProc(Flat(code)), 0, 0)
    /\ \A k \in Procs(Flat(code)) :
          /\ Flat(code)[k].name \in DOMAIN result.symbols
          /\ result.symbols[Flat(code)[k].name]
                 = result.code_base
                       + Len(Lowered(SubSeq(Flat(code), 1, k - 1), 0, 0))

\* an assembly by Assembler.assemble of quatch/q3asm.py or by my_assemble
\* for a caller of procedures
OfProcs ==
    /\ result.op = "assemble" /\ result.entry \in {"q3asm", "my"}
    /\ file.name = "frame"

\* C21: `proc NAME L A` defines NAME at the current code address and emits
\* ENTER f, f = 8 + align(L,4) + align(A,4); until the next proc RET* emits
\* LEAVE f, endproc PUSH and LEAVE f, ADDRL e LOCAL (e + 8 + align(A,4)),
\* ADDRF e LOCAL (e + 16 + align(A,4) + align(L,4)); so the input
\* `proc foo 8 4 / CNSTI4 42 / RETI4 / endproc` yields ENTER 20, CONST 42,
\* LEAVE 20, PUSH, LEAVE 20 with foo at the address of the ENTER
C21_ProcLowering ==
    OfProcs =>
        /\ code = << ProcExample >> => ProcExampleLowered
        /\ result.err = "ok" => ProcsLowered

\* what the code does: define_symbol reads self.current_segment, which no
\* statement sets before the first segment line, so a proc line that no
\* segment line precedes ends the assembly with AttributeError.  The lines
\* of an assembly that returned are lowered as claimed
ProcNeedsSegmentLine ==
    OfProcs =>
        /\ result.err = "ok" => ProcsLowered
        /\ (\E k \in Procs(Flat(code)) :
               \A j \in 1..(k - 1) : Flat(code)[j].op # "segment")
               => result.err = "AttributeError"
        /\ code = << <<Seg("code")>> \o ProcExample >> => ProcExampleLowered

\* reached: the example after the line `code`
ProcExampleInCode ==
    /\ OfProcs /\ code = << <<Seg("code")>> \o ProcExample >>
    /\ ProcExampleLowered

\* reached: the example as it stands ends with AttributeError
ProcExampleAlone ==
    /\ OfProcs /\ code = << ProcExample >>
    /\ result.err = "AttributeError"

\* reached: locals and args that are no multiples of 4, with both kinds of
\* address
UnalignedFrame ==
    /\ OfProcs /\ result.err = "ok"
    /\ code = << << Seg("code"), Proc("g", 5, 3), AddrLP4(4), AddrFP4(4), RetI4 >> >>
    /\ result.instructions
           = << Ins(ENTER, IntOp(20)), Ins(OP_LOCAL, IntOp(16)),
                Ins(OP_LOCAL, IntOp(32)), Ins(LEAVE, IntOp(20)) >>

\* the names the lines of the files define, as the table holds them
NamesDefined(files) ==
    { FileLocal(files[p[1]][p[2]].name, p[1] - 1) :
        p \in {q \in Positions(files) : Defines(files[q[1]][q[2]])} }

\* the places of the references
References(files) == {p \in Positions(files) : files[p[1]][p[2]].op = "ADDRGP4"}

\* the segments returned for file i (from 1): Assembler.assemble returns
\* one set for all files
SegmentsOf(i) ==
    IF result.entry = "my" THEN result.segments[i] ELSE result.segments[1]

\* the address of the symbol a line of the code segment defines: that of the
\* next instruction for a label; for equ the value, which is taken as an
\* offset in the segment like that of a label
AddressDefined(files, p, code_base) ==
    IF files[p[1]][p[2]].op = "equ"
    THEN files[p[1]][p[2]].value + SegmentsOf(p[1]).code.segment_base
    ELSE code_base + CodeBefore(files, p[1], p[2])

\* the symbols returned are those handed in, with their values, and those
\* of the lines, with the addresses of the second pass
FinalAddresses ==
    \A name \in DOMAIN result.symbols :
        \/ name \in DOMAIN file.symbols
              /\ result.symbols[name] = IntOf(file.symbols[name].value)
        \/ \E p \in Positions(code) :
              /\ Defines(code[p[1]][p[2]])
              /\ FileLocal(code[p[1]][p[2]].name, p[1] - 1) = name
              /\ result.symbols[name] = AddressDefined(code, p, result.code_base)

\* the second pass starts from empty images and resolves every reference,
\* also one to a label that is defined later, to the address returned for
\* the symbol
SecondPassResolves ==
    /\ Len(result.instructions) = Cardinality(References(code))
    /\ \A p \in References(code) :
          /\ FileLocal(code[p[1]][p[2]].name, p[1] - 1) \in DOMAIN result.symbols
          /\ result.instructions[CodeBefore(code, p[1], p[2]) + 1]
                 = Ins(CONST, IntOp(result.symbols[
                                  FileLocal(code[p[1]][p[2]].name, p[1] - 1)]))
    /\ FinalAddresses

\* the first pass resolves every reference to 0
FirstPassResolvesToZero ==
    result.first.instructions
        = [k \in 1..Cardinality(References(code)) |-> Ins(CONST, IntOp(0))]

\* an assembly of labels whose first pass came to its end
FirstPassDone == OfLabels /\ result.first.err = "ok"

\* C22, as amended: the assembler walks the input files twice, in order.
\* The first pass defines the symbols and resolves every reference to 0;
\* the second pass resets the images, defines no symbol and resolves every
\* reference, also one to a label defined later, to the final address
C22_FirstPassDefinesSecondResolves ==
    FirstPassDone =>
        /\ result.first.defined = DOMAIN file.symbols \cup NamesDefined(code)
        /\ FirstPassResolvesToZero
        /\ result.err = "ok" =>
               /\ DOMAIN result.symbols = result.first.defined
               /\ SecondPassResolves

\* C22, as stated: the first pass defines no symbol and resolves every
\* reference to 0; the second pass resets the images, defines the symbols
\* and resolves every reference to the final address
C22_SecondPassDefines ==
    FirstPassDone =>
        /\ result.first.defined = DOMAIN file.symbols
        /\ FirstPassResolvesToZero
        /\ result.err = "ok" =>
               /\ DOMAIN result.symbols = DOMAIN file.symbols \cup NamesDefined(code)
               /\ SecondPassResolves

\* a reference to a label that the file defines later, resolved to 0 by the
\* first pass and to the address of the label by the second
C22_Witness ==
    /\ FirstPassDone /\ result.err = "ok"
    /\ \E p \in References(code) :
          /\ \E k \in (p[2] + 1)..Len(code[p[1]]) :
                code[p[1]][k] = LabelV(code[p[1]][p[2]].name)
          /\ result.first.instructions[CodeBefore(code, p[1], p[2]) + 1]
                 = Ins(CONST, IntOp(0))
          /\ result.instructions[CodeBefore(code, p[1], p[2]) + 1]
                 = Ins(CONST, IntOp(result.code_base
                                        + CodeBefore(code, p[1], p[2]) + 1))
          /\ code[p[1]][p[2]].name \in result.first.defined

\* an assembly by Assembler.assemble of quatch/q3asm.py or by my_assemble
\* for a caller of data
OfLayout ==
    /\ result.op = "assemble" /\ result.entry \in {"q3asm", "my"}
    /\ file.name \in {"layout", "based"}
    /\ Len(code) = 1

\* the input can be assembled: it starts with a segment line, defines no
\* label twice and refers to labels it defines
CanBeAssembled(lines) ==
    /\ lines # <<>> /\ lines[1].op = "segment"
    /\ \A j, k \in 1..Len(lines) :
          (lines[j].op = "LABELV" /\ lines[k].op = "LABELV") => j = k
    /\ (\E k \in 1..Len(lines) : lines[k].op = "address")
           => \E k \in 1..Len(lines) : lines[k].op = "LABELV"

\* the bytes of segment at the address given
BytesAt(segment, address, size) ==
    IF address - segment.segment_base < 0
          \/ address - segment.segment_base + size > Len(segment.image)
    THEN << >>
    ELSE SubSeq(segment.image, address - segment.segment_base + 1,
                address - segment.segment_base + size)

\* the address returned for a label that a byte or address line follows is
\* the base returned for the segment the bytes went to (lit for single
\* bytes, data for words) plus their offset in the image returned
LabelsDesignate(lines) ==
    \A k \in 1..(Len(lines) - 1) :
        (lines[k].op = "LABELV" /\ lines[k + 1].op \in {"byte", "address"}) =>
            /\ lines[k].name \in DOMAIN result.symbols
            /\ lines[k + 1].op = "byte" =>
                   BytesAt(IF lines[k + 1].size = 1 THEN result.segments[1].lit
                           ELSE result.segments[1].data,
                           result.symbols[lines[k].name], lines[k + 1].size)
                       = to_bytes(PyInt(lines[k + 1].value), lines[k + 1].size)
            /\ lines[k + 1].op = "address" =>
                   BytesAt(result.segments[1].data,
                           result.symbols[lines[k].name], 4)
                       = to_bytes(PyInt(result.symbols[lines[k + 1].name]), 4)

\* lit_base = data_base + len(data image), bss_base = lit_base + len(lit image)
BasesChained ==
    /\ result.segments[1].lit.segment_base
           = result.segments[1].data.segment_base
                 + Len(result.segments[1].data.image)
    /\ result.segments[1].bss.segment_base
           = result.segments[1].lit.segment_base
                 + Len(result.segments[1].lit.image)

\* C29: the two passes lay the image out identically: the address returned
\* for a label of a data, lit or bss segment is the segment_base returned
\* plus the offset in the image returned of the bytes that follow the
\* label, also when align lines and byte or address lines that switch the
\* segment occur, and without bases of the caller lit_base = data_base +
\* len(data image) and bss_base = lit_base + len(lit image)
C29_LayoutOfThePassesAgrees ==
    OfLayout =>
        /\ CanBeAssembled(code[1]) => result.err = "ok"
        /\ result.err = "ok" =>
               /\ LabelsDesignate(code[1])
               /\ (result.entry = "q3asm" \/ file.name = "layout") => BasesChained

\* the segment lines before line k
SegmentLinesBefore(lines, k) == {j \in 1..(k - 1) : lines[j].op = "segment"}

\* a byte line that switches the segment: a single byte outside lit, a word
\* outside data
Switches(lines, k) ==
    /\ lines[k].op = "byte"
    /\ \E j \in SegmentLinesBefore(lines, k) :
          /\ \A i \in SegmentLinesBefore(lines, k) : i <= j
          /\ lines[j].name # (IF lines[k].size = 1 THEN "lit" ELSE "data")

\* what Assembler.assemble of quatch/q3asm.py does: an input with an
\* address line, or with a byte line that switches the segment, does not
\* return (hack_to_segment names current_segment, the address line
\* emit_int, and neither is defined); what returns is laid out as claimed
SwitchEndsTheAssembly ==
    (OfLayout /\ result.entry = "q3asm") =>
        /\ (\E k \in 1..Len(code[1]) :
               code[1][k].op = "address" \/ Switches(code[1], k))
               => result.err # "ok"
        /\ result.err = "ok" => LabelsDesignate(code[1]) /\ BasesChained
        /\ result.err = "ok" =>
               result.segments[1].data.segment_base = file.data_base

\* what my_assemble of quatch/_q3asm.py does: a segment whose base the
\* caller did not give starts where that of the file before ended, for the
\* first file at 0, whatever the length of the other segments
SegmentsOfFirstFileStartAtZero ==
    (OfLayout /\ result.entry = "my" /\ file.name = "layout"
         /\ result.err = "ok") =>
        \A name \in SegmentNames : result.segments[1][name].segment_base = 0

\* reached: a label and a byte that switches to lit end Assembler.assemble
\* of quatch/q3asm.py with NameError
SwitchingByteRaises ==
    /\ OfLayout /\ result.entry = "q3asm" /\ result.err = "NameError"
    /\ code[1] = << Seg("data"), LabelV("x"), Byte(1, 5) >>

\* reached: my_assemble returns data and lit that both start at 0
SegmentsOverlap ==
    /\ OfLayout /\ result.entry = "my" /\ result.err = "ok"
    /\ file.name = "layout"
    /\ code[1] = << Seg("data"), Byte(4, 7), LabelV("x"), Byte(1, 5) >>
    /\ result.segments[1].data.image = << 7, 0, 0, 0 >>
    /\ result.segments[1].lit.image = << 5 >>
    /\ result.segments[1].lit.segment_base = 0

\* reached: my_assemble moves a label that has its bytes in data to lit
\* when a later byte line switches the segment
LabelMovedAway ==
    /\ OfLayout /\ result.entry = "my" /\ result.err = "ok"
    /\ file.name = "based"
    /\ code[1] = << Seg("data"), LabelV("x"), Byte(4, 7), Byte(1, 5) >>
    /\ result.symbols["x"] = result.segments[1].lit.segment_base

\* reached: a returned assembly of quatch/q3asm.py with a label in lit,
\* behind the four bytes that data starts with and a byte of lit
LabelInLitReturned ==
    /\ OfLayout /\ result.entry = "q3asm" /\ result.err = "ok"
    /\ code[1] = << Seg("lit"), Byte(1, 5), LabelV("x"), Byte(1, 5) >>
    /\ result.symbols["x"] = file.data_base + 4 + 1
    /\ file.data_base > 0

\* self.symbols.update(symbols) of quatch/qvm.py, whose symbols are plain
\* addresses: the type of a symbol is "code" throughout
UpdateSymbols(old, new) ==
    [name \in DOMAIN old \cup DOMAIN new |->
        IF name \in DOMAIN new THEN [value |-> PyInt(new[name]), type |-> "code"]
        ELSE old[name]]

\* qvm_add_assembled with a bug: lit is added before data
qvm_add_assembledLitFirst(q, a, xs, r) ==
    IF r.err # "ok"
    THEN [err |-> r.err, instructions |-> xs, mem |-> a, symbols |-> q.symbols]
    ELSE [err |-> "ok",
          instructions |-> xs \o r.instructions,
          mem |-> qvm_add_bss(
                      qvm_add_data(qvm_add_memory(a, "LIT", r.segments.lit, 1).mem,
                                   r.segments.data, 4).mem,
                      Len(r.segments.bss), 1).mem,
          symbols |-> UpdateSymbols(q.symbols, r.symbols)]

\* Qvm.add_c_code of quatch/qvm.py after the assembler: the memory a is
\* aligned already
qvm_add_assembled(q, a, xs, r) ==
    IF r.err # "ok"
    THEN [err |-> r.err, instructions |-> xs, mem |-> a, symbols |-> q.symbols]
    ELSE [err |-> "ok",
          instructions |-> xs \o r.instructions,
          mem |-> qvm_add_bss(
                      qvm_add_memory(qvm_add_data(a, r.segments.data, 4).mem,
                                     "LIT", r.segments.lit, 1).mem,
                      Len(r.segments.bss), 1).mem,
          symbols |-> UpdateSymbols(q.symbols, r.symbols)]

\* Qvm.add_c_code of quatch/qvm.py: [err, instructions, mem, symbols].  c is
\* what lcc does with the code: it fails, or it writes the file c.asm
qvm_add_c_code(q, m, xs, c) ==
    IF c.err # "ok"
    THEN [err |-> "CompilerError", instructions |-> xs, mem |-> m,
          symbols |-> q.symbols]
    ELSE qvm_add_assembled(q, MemAlign(m, 4), xs,
                           q3asm_assemble(<< c.asm >>, Len(xs), align(m.size, 4),
                                          q.symbols))

\* Qvm.add_c_files of quatch/_qvm.py, which add_c_code and add_c_file call
\* with one path: after the compiler and self.memory.align(4), Assembler()
\* lacks the argument that Assembler.__init__ of quatch/_q3asm.py requires
add_c_files(q, m, xs, c) ==
    IF c.err # "ok"
    THEN [err |-> "CompilerError", instructions |-> xs, mem |-> m,
          symbols |-> q.symbols]
    ELSE [err |-> "TypeError", instructions |-> xs, mem |-> MemAlign(m, 4),
          symbols |-> q.symbols]

\* Qvm.add_c_code of the class the Qvm is an instance of
add_c_code(q, m, xs, c) ==
    IF q.module = "_qvm" THEN add_c_files(q, m, xs, c)
    ELSE qvm_add_c_code(q, m, xs, c)

\* Qvm.my_add_c_files of quatch/_qvm.py on npaths paths: compile_c_file has
\* no parameter additional_args, so the first path ends the call; without a
\* path the memory is aligned, my_assemble returns the symbols it was given
\* and assembler.local_symbols does not exist
my_add_c_files(q, m, xs, npaths) ==
    IF npaths > 0
    THEN [err |-> "TypeError", instructions |-> xs, mem |-> m,
          symbols |-> q.symbols]
    ELSE [err |-> "AttributeError", instructions |-> xs,
          mem |-> MemAlign(m, 4), symbols |-> q.symbols]

(***************************************************************************)
(* The bench of add_c_code: a Qvm made from a file, add_lit calls, which   *)
(* leave a memory of any length, and calls that compile.                   *)
(***************************************************************************)
MaxCompiles == 2         \* add_c_code and my_add_c_files are called this often

\* assembly files: a function f with a string, a function g that calls f
\* and has a string, a word of data and two bytes of bss, a byte outside a
\* segment of data, a line the assembler does not know, a function with
\* the name of an init function
AsmSamples ==
    { << Seg("code"), Proc("f", 0, 0), AddrGP4("$1"), EndProc,
         Seg("lit"), LabelV("$1"), Byte(1, 97), Byte(1, 0) >>,
      << Seg("code"), Proc("g", 0, 0), AddrGP4("f"), CallV, AddrGP4("$1"),
         EndProc, Seg("lit"), LabelV("$1"), Byte(1, 98) >>,
      << Seg("data"), LabelV("x"), Byte(4, 1), Seg("bss"), LabelV("y"), Skip(2) >>,
      << Seg("code"), Proc("h", 0, 0), EndProc, Byte(4, 1) >>,
      << Seg("code"), Other >>,
      << Seg("code"), Proc("G_InitGame", 0, 0), EndProc >> }

\* what lcc does with the C code
CompileSamples ==
    { [err |-> "CalledProcessError", asm |-> <<>>] }
        \cup { [err |-> "ok", asm |-> asm] : asm \in AsmSamples }

\* what a call that compiles leaves behind
QvmCompiled(op, r) ==
    /\ instructions' = r.instructions
    /\ memory' = r.mem
    /\ qvm' = [qvm EXCEPT !.symbols = r.symbols]
    /\ nwrites' = nwrites + 1
    /\ result' = [op |-> op, err |-> r.err,
                  before |-> [instructions |-> instructions, memory |-> memory,
                              symbols |-> qvm.symbols]]
    /\ UNCHANGED <<reference, code, file, disk, nadds>>

\* qvm.add_c_code(code)
QvmAddCCode(c) ==
    /\ result.op = "none"
    /\ nwrites < MaxCompiles
    /\ QvmCompiled("add_c_code", add_c_code(qvm, memory, instructions, c))

\* qvm.my_add_c_files(paths)
QvmMyAddCFiles(npaths) ==
    /\ result.op = "none"
    /\ qvm.module = "_qvm"
    /\ nwrites < MaxCompiles
    /\ QvmCompiled("my_add_c_files",
                   my_add_c_files(qvm, memory, instructions, npaths))

CompileNext ==
    \/ \E a \in AddLitSamples : QvmAddLit(a[1], a[2])
    \/ \E c \in CompileSamples : QvmAddCCode(c)
    \/ \E npaths \in {0, 1} : QvmMyAddCFiles(npaths)
    \/ Return

SpecCompile == QvmInit /\ [][CompileNext]_vars

(***************************************************************************)
(* The bench of the calls index: a Qvm made from a file, to which code is  *)
(* added by add_code and add_c_code, whose calls are replaced, one target  *)
(* after another, and which is written.                                    *)
(***************************************************************************)
\* what lcc makes of a function that calls the init function
CallsCompileSamples ==
    { [err |-> "ok",
       asm |-> << Seg("code"), Proc("h", 0, 0), AddrGP4("G_InitGame"), CallV,
                  EndProc >>] }

\* old and new of replace_calls: a new target is an old target of a later call
CallsOldSamples == {Name("G_InitGame"), IntOp(0), IntOp(1)}
CallsNewSamples == {IntOp(0), IntOp(2)}

CallsNext ==
    \/ \E new \in AddCodeSamples : QvmAddCode(new)
    \/ \E c \in CallsCompileSamples : QvmAddCCode(c)
    \/ \E old \in CallsOldSamples, new \in CallsNewSamples :
           QvmReplaceCalls(old, new)
    \/ QvmWrite(<<>>, FALSE)
    \/ Return

SpecCalls == QvmInit /\ [][CallsNext]_vars

(***************************************************************************)
(* Properties of Memory, checked under SpecMem.                            *)
(***************************************************************************)
\* byte a of the memory lies inside a stored (DATA or LIT) region
Covered(m, a) == \E k \in 1..Len(m.regions) :
                     m.regions[k].begin <= a /\ a < m.regions[k].end

\* the index an int key stands for
Normal(m, i) == IF i < 0 THEN i + m.size ELSE i

\* C1: reads of a Memory agree with the reference bytearray that holds the
\* same bytes: m[i] = reference[i] for every index in range, IndexError from
\* both for every other index, m[i:j] = reference[i:j] for all bounds, also
\* after successful index and slice writes applied to both.
C1_ReadsAgreeWithReference ==
    result.op = "getitem" =>
        /\ \A i \in Keys(memory) : result.item[i] = RefGetItem(reference, i)
        /\ \A i \in Keys(memory), j \in Keys(memory) :
               result.slice[<<i, j>>] = PySlice(reference, i, j)
        /\ memory.size = Len(reference)

\* C1 witness: all keys were read on a memory holding a region, a BSS byte
\* and another region, after a successful write
C1_Witness ==
    /\ result.op = "getitem"
    /\ nwrites > 0
    /\ Len(memory.regions) = 2
    /\ memory.regions[1].end < memory.regions[2].begin
    /\ memory.regions[2].end = memory.size

AddedOk == result.op \in {"add_region", "add_bss"} /\ result.err = "ok"

\* the bytes such a call was asked to add
AddedBytes == IF result.op = "add_bss" THEN Zeros(result.size) ELSE result.data

\* C14: a successful add_region (so add_data and add_lit, which pass their
\* arguments on) or add_bss returns the least multiple of the alignment that
\* is not below the old length; the bytes added are read at
\* [address, address + size), where the memory now ends; the bytes before the
\* old length are as they were, and every byte of the gap between the old
\* length and the address reads 0 and rejects a write
C14_AddReturnsAlignedAddress ==
    AddedOk =>
        LET old  == result.before.size
            a    == result.alignment
            size == Len(AddedBytes)
        IN  /\ result.ret % a = 0
            /\ old <= result.ret /\ result.ret < old + a
            /\ memory.size = result.ret + size
            /\ GetSlice(memory, result.ret, result.ret + size) = AddedBytes
            /\ GetSlice(memory, 0, old) = GetSlice(result.before, 0, old)
            /\ (result.op = "add_region" /\ result.tag # "BSS") =>
                   \A k \in result.ret..(result.ret + size - 1) : Covered(memory, k)
            /\ \A k \in old..(result.ret - 1) :
                   /\ GetItem(memory, k) = [err |-> "ok", val |-> 0]
                   /\ SetItem(memory, k, 2).err = "IndexError"
                   /\ SetItem(memory, k, 2).mem = memory

\* bytes were added behind a gap of two bytes, after a region
C14_Witness ==
    /\ AddedOk /\ result.op = "add_region" /\ result.tag = "LIT"
    /\ result.alignment = 3
    /\ result.before.size = 1
    /\ Len(result.before.regions) = 1
    /\ result.ret = 3
    /\ result.data = <<1>>

\* the length of the memory is a multiple of the alignment after every
\* successful add_region
C15_LengthIsAligned ==
    (result.op = "add_region" /\ result.err = "ok") =>
        memory.size % result.alignment = 0

\* C15: after a successful add_region the address returned is a multiple of
\* the alignment, and the length of the memory is that address plus the
\* length of the data
C15_AddressIsAligned ==
    (result.op = "add_region" /\ result.err = "ok") =>
        /\ result.ret % result.alignment = 0
        /\ memory.size = result.ret + Len(result.data)

\* one byte was added at an address that had to be padded up to; the memory
\* ends one byte behind a multiple of the alignment
C15_Witness ==
    /\ result.op = "add_region" /\ result.err = "ok"
    /\ result.ret > result.before.size
    /\ memory.size % result.alignment = 1

\* C17: add_region fails exactly for DATA whose length or alignment is not a
\* multiple of 4 and for BSS with a byte that is not 0; add_bss fails
\* exactly for a negative size
C17_AddFailsExactlyOnBadArguments ==
    /\ result.op = "add_region" =>
           /\ result.err \in {"ok", "ValueError"}
           /\ result.err = "ValueError" <=>
                  \/ /\ result.tag = "DATA"
                     /\ (Len(result.data) % 4 # 0 \/ result.alignment % 4 # 0)
                  \/ /\ result.tag = "BSS"
                     /\ \E x \in 1..Len(result.data) : result.data[x] # 0
    /\ result.op = "add_bss" =>
           /\ result.err \in {"ok", "ValueError"}
           /\ result.err = "ValueError" <=> result.size < 0

\* a whole word of DATA was rejected for its alignment alone
C17_Witness ==
    /\ result.op = "add_region" /\ result.err = "ValueError"
    /\ result.tag = "DATA"
    /\ Len(result.data) = 4
    /\ result.alignment = 2

\* the stored regions lie within the memory one behind the other, and
\* region_at finds at most one region at every address
RegionsInOrder ==
    LET rs == memory.regions
    IN  /\ \A k \in 1..Len(rs) :
               0 <= rs[k].begin /\ rs[k].begin <= rs[k].end
                   /\ rs[k].end <= memory.size
        /\ \A k \in 1..(Len(rs) - 1) : rs[k].end <= rs[k + 1].begin
        /\ \A a \in 0..(memory.size - 1) :
               /\ Cardinality({ k \in 1..Len(rs) :
                                    rs[k].begin <= a /\ a < rs[k].end }) <= 1
               /\ region_at(memory, a) # -1

\* C16: in every state the stored regions are pairwise disjoint, strictly
\* ordered by begin and contained in the memory, at most one region covers an
\* address and the assertion of region_at does not fail
C16_RegionsStrictlyOrdered ==
    /\ RegionsInOrder
    /\ \A k \in 1..(Len(memory.regions) - 1) :
           memory.regions[k].begin < memory.regions[k + 1].begin

\* C18: an add_region of no bytes of DATA or LIT returns the old length
\* rounded up to the alignment, which is the new length, and leaves the
\* list of regions as it was
C18_EmptyAddStoresNoRegion ==
    (result.op = "add_region" /\ result.err = "ok" /\ result.tag # "BSS"
         /\ result.data = <<>>) =>
        /\ result.ret = align(result.before.size, result.alignment)
        /\ memory.size = result.ret
        /\ memory.regions = result.before.regions

\* the same but for the region: one of no bytes is stored at the address
EmptyAddStoresEmptyRegion ==
    (result.op = "add_region" /\ result.err = "ok" /\ result.tag # "BSS"
         /\ result.data = <<>>) =>
        /\ result.ret = align(result.before.size, result.alignment)
        /\ memory.size = result.ret
        /\ memory.regions = Append(result.before.regions,
                                   Region(result.ret, result.ret, result.tag, <<>>))

\* C27: a Memory write that fails modifies nothing: after an index or slice
\* write that raises IndexError or ValueError the region list, with every
\* byte of every region, and len(m) are what they were before the call.
C27_FailedWriteChangesNothing ==
    [][(result'.op \in {"setitem", "setslice"} /\ result'.err # "ok")
           => memory' = memory]_vars

\* C27 witness: a slice write of the right length was rejected, and its
\* range starts inside a region and ends outside every region
C27_Witness ==
    /\ result.op = "setslice"
    /\ result.err = "IndexError"
    /\ Len(result.value) = SliceLen(memory, result.i, result.j)
    /\ Covered(memory, SliceIndex(result.i, memory.size))
    /\ ~Covered(memory, SliceIndex(result.j, memory.size) - 1)

\* a write of a value of the wrong length was rejected with ValueError on a
\* range that lies inside a region
WrongLengthRejected ==
    /\ result.op = "setslice"
    /\ result.err = "ValueError"
    /\ SliceLen(memory, result.i, result.j) > 0
    /\ \A a \in SliceIndex(result.i, memory.size)
                  .. (SliceIndex(result.j, memory.size) - 1) : Covered(memory, a)

\* C28: a failing add_region (DATA with a size or alignment that is not a
\* multiple of 4, BSS with a nonzero byte) leaves the memory unchanged:
\* len(m) and the region list are what they were before the call.
C28_FailedAddChangesNothing ==
    (result.op = "add_region" /\ result.err # "ok") => memory = result.before

\* what holds of Memory.add_region instead: a failing call leaves the region
\* list alone and the length padded to the alignment it was given
FailedAddKeepsThePadding ==
    (result.op = "add_region" /\ result.err # "ok") =>
        /\ memory.regions = result.before.regions
        /\ memory.size = align(result.before.size, result.alignment)

(***************************************************************************)
(* Properties of the instruction codec, checked under SpecCodec.           *)
(***************************************************************************)
\* the operand range of a width, written out: -2^(8w-1) <= v <= 2^(8w) - 1
InRange(v, w) ==
    IF w = 1 THEN IntLeq(<<-1, 65408>>, v) /\ IntLeq(v, <<0, 255>>)
    ELSE -32768 <= v[1] /\ v[1] <= 65535

\* an Instruction has an operand iff its opcode takes one, an int operand fits
WellFormed(ins) ==
    /\ ins.operand.kind # "none" <=> operand_sizes(ins.opcode) # 0
    /\ ins.operand.kind = "int" => InRange(ins.operand.v, operand_sizes(ins.opcode))

\* an operand that an opcode must not be given
Violates(opcode, operand) ==
    \/ operand.kind = "none" /\ operand_sizes(opcode) # 0
    \/ operand.kind # "none" /\ operand_sizes(opcode) = 0
    \/ /\ operand.kind = "int" /\ operand_sizes(opcode) # 0
       /\ ~InRange(operand.v, operand_sizes(opcode))

\* the unsigned value of the w bytes that encode the int v
Unsigned(v, w) ==
    IF v[1] >= 0 THEN v
    ELSE IF w = 1 THEN <<0, v[2] - 65280>>
    ELSE <<v[1] + 65536, v[2]>>

\* the IEEE-754 single precision bits of a float, as an int
FloatBits(x) == IF x = Float1 THEN <<16256, 0>>      \* 0x3F800000
                ELSE <<49152, 0>>                    \* 0xC0000000

C4_InstructionsWellFormed ==
    /\ \A k \in 1..Len(instructions) : WellFormed(instructions[k])
    /\ result.op \in {"roundtrip", "disassemble"} =>
           \A k \in 1..Len(result.out.instructions) :
               WellFormed(result.out.instructions[k])
    /\ result.op = "new" =>
           (Violates(result.opcode, result.operand) => result.err # "ok")
    /\ result.op = "set" =>
           /\ Violates(result.before.opcode, result.value) => result.err # "ok"
           /\ result.err # "ok" => instructions[result.k] = result.before
           /\ result.err = "ok" => instructions[result.k].operand = result.value

\* C4 witness: an out-of-range assignment to an Instruction that holds an
\* int operand was rejected
C4_Witness ==
    /\ result.op = "set"
    /\ result.err = "ValueError"
    /\ result.value.kind = "int"
    /\ result.before.operand.kind = "int"
    /\ result.before.operand.v # result.value.v

\* how a byte stream ends: on an instruction boundary ("clean"), inside an
\* operand ("truncated") or at a byte that is no opcode ("unknown")
RECURSIVE StreamShape(_)
StreamShape(stream) ==
    IF stream = <<>> THEN "clean"
    ELSE IF Head(stream) \notin 0..59 THEN "unknown"
    ELSE LET w == IF Head(stream) \in {3, 4, 8, 9, 34} \cup (11..26) THEN 4
                  ELSE IF Head(stream) = 33 THEN 1 ELSE 0
         IN  IF Len(stream) - 1 < w THEN "truncated"
             ELSE StreamShape(SubSeq(stream, w + 2, Len(stream)))

\* C5 as claimed: disassemble returns normally when the stream ends on an
\* instruction boundary, and fails when it ends inside an operand or holds a
\* byte that is no opcode.
C5_DisassembleRejectsTruncated ==
    result.op = "disassemble" =>
        /\ StreamShape(code) = "clean" => result.out.err = "ok"
        /\ StreamShape(code) = "unknown" => result.out.err # "ok"
        /\ StreamShape(code) = "truncated" => result.out.err # "ok"

(***************************************************************************)
(* Properties of forge_crc32, checked under SpecCrc.                       *)
(***************************************************************************)
\* a 32-bit value as the set of the positions of its 1 bits (0 the lowest)
BitsOf(p) ==
    { i \in 0..15 : (p[2] \div (2 ^ i)) % 2 = 1 } \cup
    { 16 + i : i \in { j \in 0..15 : (p[1] \div (2 ^ j)) % 2 = 1 } }

\* the CRC-32 polynomial x^32 + x^26 + x^23 + x^22 + x^16 + x^12 + x^11 +
\* x^10 + x^8 + x^7 + x^5 + x^4 + x^2 + x + 1, lowest exponent in bit 31
PolyBits == { 31 - e : e \in {0, 1, 2, 4, 5, 7, 8, 10, 11, 12, 16, 22, 23, 26} }

SymDiff(S, T) == (S \ T) \cup (T \ S)

\* the register after n more divisions by the polynomial
RECURSIVE CrcDivide(_, _)
CrcDivide(S, n) ==
    IF n = 0 THEN S
    ELSE CrcDivide(IF 0 \in S THEN SymDiff({ i - 1 : i \in S \ {0} }, PolyBits)
                   ELSE { i - 1 : i \in S },
                   n - 1)

\* the register s.reg, which the first s.k bytes of buf went through, after
\* the bytes up to number hi
RECURSIVE CrcRegister(_, _, _)
CrcRegister(s, buf, hi) ==
    IF s.k >= hi THEN s
    ELSE IF s.k + 1 = hi
    THEN [reg |-> CrcDivide(SymDiff(s.reg, BitsOf(<<0, buf[hi]>>)), 8), k |-> hi]
    ELSE CrcRegister(CrcRegister(s, buf, (s.k + hi) \div 2), buf, hi)

\* the CRC-32 of buf, as the set of its 1 bits
Crc32(buf) == (0..31) \ CrcRegister([reg |-> 0..31, k |-> 0], buf, Len(buf)).reg

\* C12: after forge_crc32(buf, offset, target) with
\* 0 <= offset <= len(buf) - 4 the CRC-32 of buf is target, and buf has its
\* length and, outside buf[offset : offset + 4], its bytes from before
C12_ForgeReachesTarget ==
    (result.op = "forge_crc32" /\ result.offset <= Len(result.before) - 4) =>
        /\ result.err = "ok"
        /\ Crc32(code) = BitsOf(result.crc)
        /\ Len(code) = Len(result.before)
        /\ \A k \in 1..Len(code) :
               (k <= result.offset \/ k > result.offset + 4) => code[k] = result.before[k]

\* a buffer with bytes before and after the four was forged a second time,
\* at another offset, and the four bytes changed
C12_Witness ==
    /\ result.op = "forge_crc32"
    /\ nwrites = 2
    /\ result.offset = 1
    /\ Len(result.before) = 5
    /\ result.before[1] # 0
    /\ result.crc = <<4660, 22136>>
    /\ Crc32(result.before) # BitsOf(result.crc)
    /\ ~result.resizable
    /\ SubSeq(code, 2, 5) # SubSeq(result.before, 2, 5)

(***************************************************************************)
(* Properties of the image builder.                                        *)
(***************************************************************************)
\* the Qvm as it was just after Qvm(file)
Loaded == Load(qvm.module, file, NoSymbols)

\* the indices i with CONST target at i and CALL at i + 1 in the list xs
CallSites(xs, target) ==
    { i \in 0..(Len(xs) - 2) :
          /\ xs[i + 1] = [opcode |-> CONST, operand |-> [kind |-> "int", v |-> target]]
          /\ xs[i + 2].opcode = CALL }

\* the init names the symbol table holds, as positions in the search order
InitPresent == { k \in 1..3 : InitNames[k] \in DOMAIN qvm.symbols }

\* the address of the first init function present
InitAddress ==
    qvm.symbols[InitNames[CHOOSE k \in InitPresent :
                              \A j \in InitPresent : k <= j]].value

\* the call sites of the first init function present, in the loaded file
InitCallSites ==
    IF InitPresent = {} THEN {} ELSE CallSites(Loaded.instructions, InitAddress)

\* the regions added after load, when n regions were loaded
AddedRegions(n) == { memory.regions[k] : k \in (n + 1)..Len(memory.regions) }

\* a write has just added a wrapper
Synthesized ==
    /\ qvm.module # "none"
    /\ result.op = "write"
    /\ result.err = "ok"
    /\ Len(instructions) > Len(result.before)

\* C6: a replace_calls(old, new) that returns has set the operand of every
\* instruction at a call site of old in the loaded file to new, has changed
\* no other instruction, and has returned the number of those call sites
C6_ReplaceCallsSetsCallSites ==
    (qvm.module # "none" /\ result.op = "replace_calls" /\ result.err = "ok") =>
        LET sites == CallSites(Loaded.instructions, result.old.v)
        IN  /\ Len(instructions) = Len(result.before)
            /\ \A k \in 1..Len(instructions) :
                   IF k - 1 \in sites
                   THEN instructions[k] = [opcode |-> result.before[k].opcode,
                                           operand |-> result.new]
                   ELSE instructions[k] = result.before[k]
            /\ result.ret = Cardinality(sites)

\* two call sites were replaced, and an instruction added after load that
\* calls old was not
C6_Witness ==
    /\ qvm.module # "none" /\ result.op = "replace_calls" /\ result.err = "ok"
    /\ result.ret = 2
    /\ instructions # result.before
    /\ \E k \in 1..(Len(instructions) - 1) :
           /\ instructions[k] = [opcode |-> CONST, operand |-> result.old]
           /\ instructions[k + 1].opcode = CALL

\* C7: a write directly after load succeeds, adds no instruction, patches
\* no call site, and the file it writes has the instruction count, the
\* instructions, the data, lit and bss lengths and the data section of the
\* file loaded
C7_WriteAfterLoadKeepsTheFile ==
    (qvm.module # "none" /\ result.op = "write" /\ ~result.forge_crc) =>
        LET L == Loaded
        IN  (result.before = L.instructions /\ memory = L.memory) =>
            /\ result.err = "ok"
            /\ instructions = result.before
            /\ LET F == struct_unpack(FileRead(file, 0, HEADER_SIZE))
                   G == struct_unpack(FileRead(result.now, 0, HEADER_SIZE))
                   n == IntOf(F[6]) + IntOf(F[7])
               IN  /\ G[2] = F[2] /\ G[6] = F[6] /\ G[7] = F[7] /\ G[8] = F[8]
                   /\ Truncate(disassemble(FileRead(result.now, IntOf(G[3]),
                                                    IntOf(G[4]))).instructions,
                               IntOf(G[2]))
                      = L.instructions
                   /\ FileRead(result.now, IntOf(G[5]), n)
                      = FileRead(file, IntOf(F[5]), n)

\* C8: the wrapper a write adds starts with ENTER 0x100 at the index that
\* was the number of instructions, the first call site of the init function
\* calls it, and the other instructions are as they were
C8_HookPatchesFirstCallSite ==
    Synthesized =>
        LET W     == Len(result.before)
            sites == InitCallSites
            site  == CHOOSE i \in sites : \A j \in sites : i <= j
        IN  /\ sites # {}
            /\ instructions[W + 1] = [opcode |-> ENTER, operand |-> IntOp(256)]
            /\ instructions[site + 1] = [opcode |-> CONST, operand |-> IntOp(W)]
            /\ \A k \in 1..W : k # site + 1 => instructions[k] = result.before[k]

\* the init function has two call sites, code was added before the write
C8_Witness ==
    /\ Synthesized
    /\ Cardinality(InitCallSites) = 2
    /\ Len(result.before) > Len(Loaded.instructions)

\* the stores in body, as triples of instructions
Triples(body) ==
    { SubSeq(body, 3 * k + 1, 3 * k + 3) : k \in 0..((Len(body) \div 3) - 1) }

\* the wrapper a write has added, without its ENTER and its last 14
\* instructions (the call of the init function, the end of the procedure)
WrapperBody == SubSeq(instructions, Len(result.before) + 2, Len(instructions) - 14)

\* the little-endian value of the word at offset o (from 0) of contents
WordAt(contents, o) ==
    << contents[o + 3] + 256 * contents[o + 4], contents[o + 1] + 256 * contents[o + 2] >>

\* the stores that the regions call for
ExpectedStores(regions) ==
    { << [opcode |-> CONST, operand |-> IntOp(r[1].begin + r[2])],
         [opcode |-> CONST, operand |->
             [kind |-> "int", v |-> WordAt(r[1].contents, r[2])]],
         [opcode |-> STORE4, operand |-> None] >> :
        r \in { p \in regions \X (0..MaxMemory) :
                  /\ p[1].tag = "DATA"
                  /\ p[2] < p[1].end - p[1].begin
                  /\ (p[1].begin + p[2]) % 4 = 0
                  /\ WordAt(p[1].contents, p[2]) # <<0, 0>> } }
    \cup
    { << [opcode |-> CONST, operand |-> IntOp(r[1].begin + r[2])],
         [opcode |-> CONST, operand |-> IntOp(r[1].contents[r[2] + 1])],
         [opcode |-> STORE1, operand |-> None] >> :
        r \in { p \in regions \X (0..MaxMemory) :
                  /\ p[1].tag = "LIT"
                  /\ p[2] < p[1].end - p[1].begin
                  /\ p[1].contents[p[2] + 1] # 0 } }

\* C9: between its ENTER and the call of the init function, the wrapper
\* holds one store for every nonzero word of the DATA regions added after
\* load and one for every nonzero byte of the LIT regions added after load,
\* and nothing else
C9_WrapperStoresTheAddedData ==
    Synthesized =>
        LET body   == WrapperBody
            stores == Triples(body)
        IN  /\ instructions[Len(instructions) - 13]
                   = [opcode |-> OP_LOCAL, operand |-> IntOp(264)]
            /\ Len(body) % 3 = 0
            /\ Cardinality(stores) = Len(body) \div 3
            /\ stores = ExpectedStores(AddedRegions(Len(Loaded.memory.regions)))

\* a word and a byte are stored, a zero word and a zero byte of the added
\* regions are not, and a byte was written after it was added
C9_Witness ==
    /\ Synthesized
    /\ nwrites > 0
    /\ LET stores == Triples(WrapperBody)
           added  == AddedRegions(Len(Loaded.memory.regions))
       IN  /\ \E s \in stores : s[3].opcode = STORE4
           /\ \E s \in stores : s[3].opcode = STORE1
           /\ \E r \in added : r.tag = "DATA" /\ r.end - r.begin > 4
           /\ \E r \in added : r.tag = "LIT" /\ \E o \in 1..Len(r.contents) :
                                                   r.contents[o] = 0
           /\ Cardinality(stores) = 2

\* the first call site of the init function, in the loaded file
FirstInitCallSite == CHOOSE i \in InitCallSites : \A j \in InitCallSites : i <= j

\* the last n instructions of xs
LastOf(xs, n) == SubSeq(xs, Len(xs) - n + 1, Len(xs))

\* a is the address of a wrapper in the instructions xs
IsWrapper(xs, a) ==
    /\ a.kind = "int"
    /\ a.v[1] = 0
    /\ a.v[2] >= Len(Loaded.instructions)
    /\ a.v[2] < Len(xs)
    /\ xs[a.v[2] + 1] = [opcode |-> ENTER, operand |-> IntOp(256)]

\* C25: a write that synthesizes a hook reads the operand stored at the
\* first call site of the init function at that moment (the address of the
\* init function, a target installed by replace_calls, or the wrapper of an
\* earlier write); the new wrapper ends with LOCAL 0x108; LOAD4; ARG 8;
\* LOCAL 0x10C; LOAD4; ARG 0xC; LOCAL 0x110; LOAD4; ARG 0x10; CONST of that
\* operand; CALL; LEAVE 0x100; PUSH; LEAVE 0x100, the call site targets the
\* new wrapper, and the wrappers of earlier writes are as they were: the
\* n-th wrapper calls the (n-1)-th and the first calls the target that was
\* in place before the first write.
C25_WrapperCallsTheTargetInPlace ==
    Synthesized =>
        LET W    == Len(result.before)
            site == FirstInitCallSite
            prev == result.before[site + 1].operand
        IN  /\ LastOf(instructions, 14) = Trampoline(prev)
            /\ instructions[site + 1].operand = IntOp(W)
            /\ IsWrapper(instructions, IntOp(W))
            /\ \A k \in 1..W : k # site + 1 => instructions[k] = result.before[k]
            /\ IsWrapper(result.before, prev) =>
                   instructions[Len(instructions) - 4].operand.v[2] < W

\* C25 witness: the second of two writes with nothing in between: the first
\* wrapper ends the instructions before the write and calls the init
\* function, the second wrapper calls the first, and the call site targets
\* the second
C25_Witness ==
    /\ Synthesized
    /\ LET site == FirstInitCallSite
           prev == result.before[site + 1].operand
       IN  /\ IsWrapper(result.before, prev)
           /\ LastOf(result.before, 14) = Trampoline([kind |-> "int", v |-> InitAddress])
           /\ instructions[Len(instructions) - 4].operand = prev
           /\ instructions[site + 1].operand = IntOp(Len(result.before))

\* a wrapper calls a target that replace_calls had put at the call site
WrapperCallsReplacedTarget ==
    /\ Synthesized
    /\ LET prev == result.before[FirstInitCallSite + 1].operand
       IN  /\ prev # [kind |-> "int", v |-> InitAddress]
           /\ ~IsWrapper(result.before, prev)
           /\ instructions[Len(instructions) - 4].operand = prev

\* C26: the calls index is made at load and never updated: a replace_calls(
\* old, new) that returns, after any add_code, add_c_code, replace_calls and
\* write, has rewritten the call sites that targeted old in the loaded file
\* and nothing else: no instruction appended after load, and no call site
\* that targets old only since an earlier replace_calls.
C26_OnlyLoadedCallSitesAreRewritten ==
    (qvm.module # "none" /\ result.op = "replace_calls" /\ result.err = "ok") =>
        LET loaded == CallSites(Loaded.instructions, result.old.v)
            now    == CallSites(result.before, result.old.v)
        IN  /\ \A i \in loaded : instructions[i + 1].operand = result.new
            /\ \A k \in 1..Len(instructions) :
                   instructions[k] # result.before[k] => k - 1 \in loaded
            /\ \A k \in (Len(Loaded.instructions) + 1)..Len(result.before) :
                   instructions[k] = result.before[k]
            /\ \A i \in now \ loaded : instructions[i + 1] = result.before[i + 1]

\* C26 witness: replace_calls(old, new) has rewritten call sites of the
\* loaded file while a call site that an earlier replace_calls had moved to
\* old, and a call of old in a function that add_c_code had added, stayed
C26_Witness ==
    /\ qvm.module # "none" /\ result.op = "replace_calls" /\ result.err = "ok"
    /\ result.ret > 0
    /\ result.new # result.old
    /\ LET loaded == CallSites(Loaded.instructions, result.old.v)
           now    == CallSites(instructions, result.old.v)
       IN  /\ \E i \in now : i < Len(Loaded.instructions) /\ i \notin loaded
           /\ \E i \in now : /\ i > Len(Loaded.instructions)
                              /\ instructions[i].opcode = ENTER

\* DATA or LIT was added after load
Added == Len(memory.regions) > Len(Loaded.memory.regions)

RECURSIVE EncodedLength(_)
EncodedLength(xs) ==
    IF xs = <<>> THEN 0
    ELSE 1 + (IF Head(xs).opcode \in {3, 4, 8, 9, 34} \cup (11..26) THEN 4
              ELSE IF Head(xs).opcode = 33 THEN 1 ELSE 0)
           + EncodedLength(Tail(xs))

\* C11: the file of a successful write has a header with code_offset 32,
\* the number of instructions after the hook was added, the length of the
\* encoded code rounded up to a multiple of 4, data_offset 32 + code_length,
\* the data and lit lengths of the file loaded and bss_length
\* len(memory) - data_length - lit_length + 0x10000; its data section is
\* memory[0 : data_length + lit_length], but for the four bytes a forged
\* checksum takes, and the file ends there
C11_HeaderDescribesTheImage ==
    (qvm.module # "none" /\ result.op = "write" /\ result.err = "ok") =>
        LET F == struct_unpack(FileRead(file, 0, 32))
            G == struct_unpack(FileRead(result.now, 0, 32))
            n == IntOf(F[6]) + IntOf(F[7])
            encoded == EncodedLength(instructions)
            code_length == IntOf(G[4])
        IN  /\ G[1] = F[1]
            /\ G[2] = <<0, Len(instructions)>>
            /\ G[3] = <<0, 32>>
            /\ code_length % 4 = 0
            /\ encoded <= code_length /\ code_length < encoded + 4
            /\ G[5] = <<0, 32 + code_length>>
            /\ G[6] = F[6] /\ G[7] = F[7]
            /\ G[8] = <<1, memory.size - n>>
            /\ Len(result.now) = 32 + code_length + n
            /\ \A a \in (IF result.forge_crc THEN 4 ELSE 0)..(n - 1) :
                   result.now[32 + code_length + a + 1] = GetItem(memory, a).val

\* a file was written after a region was added and a byte of the loaded
\* data was overwritten; the code had to be padded
C11_Witness ==
    /\ qvm.module # "none" /\ result.op = "write" /\ result.err = "ok"
    /\ ~result.forge_crc
    /\ nwrites > 0
    /\ Added
    /\ Len(instructions) > Len(result.before)
    /\ EncodedLength(instructions) % 4 # 0
    /\ Loaded.memory.size > 4
    /\ GetSlice(memory, 0, 4) # GetSlice(Loaded.memory, 0, 4)

\* the file write(path) without forge_crc puts at the path in this state
PlainFile == FileImage(qvm, memory, instructions)

\* a write with forge_crc=True that returned: the checksum of the file is
\* that of the file loaded, and the file is the one of a write without
\* forge_crc but for the four bytes at data_offset
ForgedAsLoaded ==
    LET plain == PlainFile
        d == FileDataOffset(instructions)
    IN  /\ Crc32(result.now) = Crc32(file)
        /\ disk = result.now
        /\ Len(result.now) = Len(plain)
        /\ \A k \in 1..Len(plain) :
               k \notin (d + 1)..(d + 4) => result.now[k] = plain[k]

\* C13: a write with forge_crc=True, unless the init hook cannot be
\* installed, writes a file with the CRC-32 of the file loaded that differs
\* from the file of a write without forge_crc in no byte but the four at
\* data_offset
C13_ForgedFileKeepsTheChecksum ==
    (qvm.module # "none" /\ result.op = "write" /\ result.forge_crc
         /\ result.err # "InitSymbolError") =>
        result.err = "ok" /\ ForgedAsLoaded

\* the same for the files that hold four bytes of data and lit or more
ForgedWhereThereIsRoom ==
    (qvm.module # "none" /\ result.op = "write" /\ result.forge_crc
         /\ result.err # "InitSymbolError"
         /\ qvm.original_data_length + qvm.original_lit_length >= 4) =>
        result.err = "ok" /\ ForgedAsLoaded

\* a forged file after mutations that changed the checksum
ForgedAfterMutations ==
    /\ qvm.module # "none" /\ result.op = "write" /\ result.forge_crc
    /\ result.err = "ok"
    /\ Added /\ nwrites > 0
    /\ Len(instructions) > Len(result.before)
    /\ Crc32(PlainFile) # Crc32(file)

(***************************************************************************)
(* Properties of add_c_code, checked under SpecCompile.                    *)
(***************************************************************************)
\* a call that compiles has ended
Compiled == result.op \in {"add_c_code", "my_add_c_files"}

\* C19: a call that compiles and fails leaves the instructions, the memory
\* (its contents, its length and its regions) and the symbols as they were;
\* one that returns has added instructions or symbols or memory
C19_FailedCompileChangesNothing ==
    Compiled =>
        /\ result.err # "ok" =>
               /\ instructions = result.before.instructions
               /\ memory = result.before.memory
               /\ qvm.symbols = result.before.symbols
        /\ result.err = "ok" =>
               /\ Len(instructions) >= Len(result.before.instructions)
               /\ memory.size >= result.before.memory.size
               /\ DOMAIN result.before.symbols \subseteq DOMAIN qvm.symbols

\* a call that fails leaves everything but the length of the memory, which
\* it has rounded up to a multiple of 4 unless the compiler failed
FailedCompileAlignsTheMemory ==
    (Compiled /\ result.err # "ok") =>
        /\ instructions = result.before.instructions
        /\ qvm.symbols = result.before.symbols
        /\ memory.regions = result.before.memory.regions
        /\ memory.size \in { result.before.memory.size,
                              align(result.before.memory.size, 4) }

\* C20: after an add_c_code that returned, every name the symbol table held
\* before the call is in it with the address and the type it had
C20_SymbolsAreOnlyAdded ==
    (result.op = "add_c_code" /\ result.err = "ok") =>
        \A name \in DOMAIN result.before.symbols :
            /\ name \in DOMAIN qvm.symbols
            /\ qvm.symbols[name] = result.before.symbols[name]

\* the same for the names that do not start with "$"
GlobalSymbolsAreOnlyAdded ==
    (result.op = "add_c_code" /\ result.err = "ok") =>
        \A name \in DOMAIN result.before.symbols \ {"$1_0"} :
            /\ name \in DOMAIN qvm.symbols
            /\ qvm.symbols[name] = result.before.symbols[name]

\* the functions f and g were compiled one after the other into the Qvm of
\* the file with five bytes of data and lit and one of bss
CompiledTwice ==
    /\ result.op = "add_c_code" /\ result.err = "ok"
    /\ Len(instructions) = 16
    /\ instructions[11] = Ins(ENTER, IntOp(8))
    /\ instructions[12] = Ins(CONST, IntOp(6))
    /\ instructions[13] = Ins(CALL, None)
    /\ instructions[14] = Ins(CONST, IntOp(20))
    /\ memory.size = 24
    /\ Len(memory.regions) = 6
    /\ memory.regions[6] = Region(20, 24, "LIT", <<98, 0, 0, 0>>)
    /\ DOMAIN qvm.symbols = {"f", "g", "$1_0"}
    /\ qvm.symbols["f"].value = PyInt(6)
    /\ qvm.symbols["g"].value = PyInt(10)
    /\ qvm.symbols["$1_0"].value = PyInt(20)
    /\ result.before.symbols["$1_0"].value = PyInt(12)

\* the symbols of the lines added designate what they label: the name of a
\* proc the ENTER among the instructions added, a label before a byte line
\* the bytes in the memory added, a label before a skip line room in the
\* memory added
SymbolsDesignate(lines, xs, m, symbols, code_base, data_base) ==
    \A k \in 1..Len(lines) :
        /\ lines[k].op = "proc" =>
               /\ lines[k].name \in DOMAIN symbols
               /\ IntOf(symbols[lines[k].name].value) >= code_base
               /\ IntOf(symbols[lines[k].name].value) < Len(xs)
               /\ xs[IntOf(symbols[lines[k].name].value) + 1]
                      = Ins(ENTER, IntOp(FrameOf(lines[k].locals, lines[k].args)))
        /\ (lines[k].op = "LABELV" /\ k < Len(lines)
                /\ lines[k + 1].op \in {"byte", "skip"}) =>
               /\ FileLocal(lines[k].name, 0) \in DOMAIN symbols
               /\ IntOf(symbols[FileLocal(lines[k].name, 0)].value) >= data_base
               /\ IntOf(symbols[FileLocal(lines[k].name, 0)].value)
                      + lines[k + 1].size <= m.size
               /\ GetSlice(m, IntOf(symbols[FileLocal(lines[k].name, 0)].value),
                           IntOf(symbols[FileLocal(lines[k].name, 0)].value)
                               + lines[k + 1].size)
                      = IF lines[k + 1].op = "skip" THEN Zeros(lines[k + 1].size)
                        ELSE to_bytes(PyInt(lines[k + 1].value), lines[k + 1].size)

\* the instructions and the segments r of the assembler are in the Qvm
\* where the assembler had them: the instructions from code_base on, data
\* at data_base, lit after data, bss after lit
AddedInPlace(r, xs, m, code_base, data_base) ==
    /\ r.err = "ok"
    /\ Len(xs) = code_base + Len(r.instructions)
    /\ SubSeq(xs, code_base + 1, Len(xs)) = r.instructions
    /\ r.bases.data = data_base
    /\ r.bases.lit = data_base + Len(r.segments.data)
    /\ r.bases.bss = r.bases.lit + Len(r.segments.lit)
    /\ m.size = r.bases.bss + Len(r.segments.bss)
    /\ GetSlice(m, r.bases.data, r.bases.lit) = r.segments.data
    /\ GetSlice(m, r.bases.lit, r.bases.bss) = r.segments.lit
    /\ \A a \in r.bases.bss..(m.size - 1) : ~Covered(m, a)
    /\ \A a \in r.bases.data..(r.bases.bss - 1) : Covered(m, a)

\* C30: after a successful add_c_code the new instructions are at the
\* indices from the number of instructions before the call on, and the
\* data, lit and bss images are in the memory at the bases the assembler
\* used (data at the 4-aligned length of the memory before the call, lit
\* after data, bss after lit), so that the address of every new symbol
\* designates the instruction or byte that the symbol labels
C30_AddedWhereTheAssemblerPutIt ==
    [][\A c \in CompileSamples :
          (QvmAddCCode(c) /\ result'.err = "ok") =>
              /\ SubSeq(instructions', 1, Len(instructions)) = instructions
              /\ GetSlice(memory', 0, memory.size) = GetSlice(memory, 0, memory.size)
              /\ AddedInPlace(q3asm_assemble(<< c.asm >>, Len(instructions),
                                             align(memory.size, 4), qvm.symbols),
                              instructions', memory',
                              Len(instructions), align(memory.size, 4))
              /\ SymbolsDesignate(c.asm, instructions', memory', qvm'.symbols,
                                  Len(instructions), align(memory.size, 4))]_vars

\* a word of data and two bytes of bss were added to a memory whose length
\* was no multiple of 4: the word is at x, behind the four bytes that the
\* data of the assembler starts with, and y is the first byte of the bss
C30_Witness ==
    /\ result.op = "add_c_code" /\ result.err = "ok"
    /\ result.before.memory.size % 4 # 0
    /\ {"x", "y"} \subseteq DOMAIN qvm.symbols
    /\ IntOf(qvm.symbols["x"].value) = align(result.before.memory.size, 4) + 4
    /\ GetSlice(memory, IntOf(qvm.symbols["x"].value),
                IntOf(qvm.symbols["x"].value) + 4) = << 1, 0, 0, 0 >>
    /\ IntOf(qvm.symbols["y"].value) = IntOf(qvm.symbols["x"].value) + 4
    /\ memory.size = IntOf(qvm.symbols["y"].value) + 4
    /\ ~Covered(memory, IntOf(qvm.symbols["y"].value))

\* reached: a function and its string were added, and the function refers
\* to the string where the memory has it
StringAddedInPlace ==
    /\ result.op = "add_c_code" /\ result.err = "ok"
    /\ {"f", "$1_0"} \subseteq DOMAIN qvm.symbols
    /\ "f" \notin DOMAIN result.before.symbols
    /\ instructions[IntOf(qvm.symbols["f"].value) + 2]
           = Ins(CONST, [kind |-> "int", v |-> qvm.symbols["$1_0"].value])
    /\ GetSlice(memory, IntOf(qvm.symbols["$1_0"].value),
                IntOf(qvm.symbols["$1_0"].value) + 2) = << 97, 0 >>


====
